---- MODULE Spec2Model ----
(***************************************************************************)
(* Model of the box64 behaviour exercised and documented by the            *)
(* box64_test_cases repository: at-fork callback registration, the         *)
(* deferred fork protocol, the in_used counters of dynarec blocks across   *)
(* fork, the block jump table with self-modifying-code invalidation, and   *)
(* the cancellation cleanup stack of a guest thread.                       *)
(*                                                                         *)
(* Each subsystem has its own specification (SpecAtfork, SpecFork, ...)    *)
(* over one shared set of variables; a specification leaves the variables  *)
(* of the other subsystems at their idle values.                           *)
(***************************************************************************)
EXTENDS Integers, Sequences, FiniteSets, TLC

(***************************************************************************)
(* Bounds of the model.                                                    *)
(***************************************************************************)
\* threads that register at-fork handlers concurrently (NUM_THREADS, bounded)
RegThreads == 2
\* handlers each of them registers (HANDLERS_PER_THREAD, bounded)
RegPerThread == 2
\* number of slots atfork_cap grows by at a reallocation
AtforkGrow == 2
\* processes the model can hold (the first one plus those created by fork)
MaxProcs == 2
\* at-fork records registered before the fork rounds (0 .. MaxHandlers)
MaxHandlers == 2
\* how many records below the array an out-of-bounds read can still reach
\* before it leaves mapped memory
OobDepth == 1
\* number of guest code addresses the guest program cycles through
CodeLen == 2

\* processes of the in_used scenario (parent, child, grandchild)
InUseProcs == 3

\* worker threads per process (NUM_WORKERS in the test)
NumWorkers == 2

\* hot functions, one translated block each (NUM_HOT_FUNCS in the test)
NumHotFuncs == 2

\* guest threads of the block cache scenario
CacheThreads == 2

\* guest code addresses, each the start of one function
CacheAddrs == 2

\* code addresses per page
PageLen == 2

\* translated blocks the executable memory has room for
MaxBlocks == 2

\* values of the byte a guest function returns (its code)
MaxByte == 2

\* dlopen / dlclose cycles of test 003 that are followed
MaxCycles == 3

\* blocks added to one mmaplist
MaxChunks == 3

\* cap of the count of invalidated blocks
MaxInval == 2

\* cleanup records a thread registers in its life
MaxRec == 4

\* growth step of the cancels array (8 in the source)
\* N, the number of executions of the leaf function's block that are counted
MaxCalls == 2

\* translations of the leaf function that are counted
MaxTrans == 2

\* return addresses the guest stack holds at most
MaxDepth == 2

\* guest instructions in the block of the flags scenario
FlagLen == 3

CancelGrow == 2

(***************************************************************************)
(* Program constants.                                                      *)
(***************************************************************************)
\* reg64_t regs[16]
NumGpr == 16
\* index of RAX and of RBX in regs[] (RAX, RCX, RDX, RBX, ...)
RAX == 0
RBX == 3
RDI == 7
R9 == 9
\* emu->fork values: regular fork, forkpty, simulated vfork
ForkRegular == 1
ForkPty == 2
ForkVfork == 3

VARIABLES
    \* ---- at-fork registration (box64context_t and the registering threads)
    atforks,        \* my_context->atforks: slot index -> atfork_fnc_t
    atfork_sz,      \* my_context->atfork_sz
    atfork_cap,     \* my_context->atfork_cap
    heap_corrupt,   \* a realloc of a freed array or a store past the capacity happened
    rpc,            \* per registering thread: position inside the registration
    ri,             \* per registering thread: the slot index it took (int i)
    rstale,         \* per registering thread: the array pointer it passes to realloc was freed
    rdone,          \* per registering thread: number of completed pthread_atfork calls
    \* ---- processes and the forking guest thread of each (x64emu_t, EmuRun)
    alive,          \* process -> it exists
    emu,            \* process -> x64emu_t of its thread: regs, eflags, ip, quit, fork
    hreg,           \* process -> host registers x10..x27 (guest values inside a block)
    arch,           \* process -> the architecturally live guest state
    where,          \* process -> position of the thread
    fi,             \* process -> loop variable i of x64emu_fork
    forktype,       \* process -> forktype argument of x64emu_fork
    v,              \* process -> return value of the host fork
    prepare_log,    \* process -> prepare handlers invoked in this fork round
    parent_log,     \* process -> parent handlers invoked in this fork round
    child_log,      \* process -> child handlers invoked in this fork round
    at_fork,        \* process -> the forking thread's state at the last host fork
    x3,             \* process -> expected return RIP kept by the bridge call site
    ppid,           \* process -> the process whose child it is, -1 when none
    threads,        \* in_used scenario: process -> its threads (empty: no process)
    in_used,        \* process -> block -> the block's in_used counter
    running,        \* process -> thread -> the block the thread is inside
    forkedBy,       \* process -> the process that forked it, -1 for none
    purged,         \* process -> the blocks PurgeDynarecMap has freed in it
    mem,            \* block cache scenario: code address -> guest byte there
    jmptable,       \* code address -> leaf slot of the 3-level page table
    blocks,         \* block id -> the translated block
    protected,      \* page -> write-protected by protectDB
    hot,            \* page -> marked as hot page
    ninval,         \* count of invalidated blocks
    cpos,           \* thread -> "loop" (in EmuRun) or "inblock"
    cip,            \* thread -> guest RIP
    cur,            \* thread -> the block it executes
    ent,            \* thread -> code of the block and guest byte at its entry
    smc,            \* what the last write fault on a code page found and did
    cancels,        \* cancellation scenario: emuthread_t.cancels, index -> record
    cancel_size,    \* emuthread_t.cancel_size
    cancel_cap,     \* emuthread_t.cancel_cap
    quit,           \* emu->quit of the thread
    quitonlongjmp,  \* emu->flags.quitonlongjmp of the thread
    tpos,           \* position of the thread
    ci,             \* loop variable i of emuthread_cancel
    nextrec,        \* the next cleanup record the guest will register
    pushed,         \* the records registered and not yet popped, oldest first
    last_pop,       \* the record the last pop removed, and the one it had to
    cleanup_log,    \* records whose cleanup handler ran, in order
    thread_state,   \* the guest's shared flag
    cancel_req,     \* pthread_cancel was called for the thread
    at_cancel,      \* number of records on the stack when cancellation began
    retval,         \* exit status of the thread
    joined,         \* status pthread_join returned, "none" before
    cache_lock,     \* stepwise translation: the thread holding the cache lock, -1 if free
    build,          \* thread -> the block it is translating, 0 when none
    leaf_trans,     \* translations of the leaf function since it was last dropped
    leaf_calls,     \* entries into the leaf function's block since then
    gstack,         \* host-to-guest call: process -> return addresses on the guest stack
    host_ret,       \* process -> what DynaRun's caller took as the return value
    once,           \* process -> x64emu_t as the first run of the epilog left it
    wrap_ip,        \* process -> emu->ip as the last wrapper left it, -1 if none
    fcode,          \* flags scenario: the guest instructions of the block, by index
    fpc,            \* index of the next instruction of the block to run
    fpos,           \* "run", "signal", "epilog", "bridge"; "none" outside
    xflags,         \* the instruction whose flags the flags word holds, 0: those at entry
    df,             \* the instruction whose operation is in the deferred-flags scratch, -1: none
    nzcv,           \* the instruction whose flags the host condition flags hold, -1: none
    arch_fl,        \* the instruction that defined the guest's flags, 0: those at entry
    last_read,      \* what the last flag consumer read, and what it had to read
    run,            \* process -> the call of Run() its thread is inside: step, addr
    ctx,            \* process -> its copy of atforks / atfork_sz, made when it was forked
    lstate,         \* locks scenario: process -> "none", "parent" or "child"
    lock_owner,     \* process -> lock -> the thread holding it, -1 when unlocked
    held_at_fork,   \* process -> the locks that were held when it was forked
    tls_mem,        \* the TLS blocks allocated so far, each a sequence of values
    emu_tlsdata,    \* thread -> emu->tlsdata: index of its block, 0 for NULL
    segs_offs,      \* thread -> emu->segs_offs[_FS]: the block FS points at, 0 unset
    tls_own,        \* thread -> the values it last gave its own variables
    mmaplist,       \* the global mmaplist_t: freed, or has a chunks array, or none yet
    mapping,        \* the mmaplist_t of the library's mapping, likewise
    chunks_heap,    \* number of chunks arrays allocated and not freed
    ncycles,        \* dlopen / dlclose cycles completed
    is32bits,       \* opcode 0F 00: rex.is32bits of the instruction being run
    nextop,         \* the ModRM byte, -1 before it is fetched
    op_pos,         \* where the case 0x00 code is
    op_count,       \* how many times a handler of the instruction ran
    op_stored,      \* what the handlers stored into the destination
    et,             \* the emuthread_t of the created thread: "none", "live", "freed"
    et_emu,         \* et->emu, its x64emu_t: "none", "live", "freed"
    thread_key,     \* the thread's value of thread_key is et (TRUE) or NULL
    ndestroy,       \* how many times emuthread_destroy released et
    hx,             \* prolog / epilog: the host registers x10..x30 and d8..d15
    hsp,            \* the host stack pointer, in 8-byte slots from its value at the call
    hstack,         \* the host stack: slot -> value
    pl_emu,         \* the x64emu_t that x0 points at: regs[16], eflags, ip
    pl_emu0,        \* its contents when native_prolog was called
    pl_pos          \* "none", "caller" (EmuRun), "block", "returned"

atforkVars == <<atforks, atfork_sz, atfork_cap, heap_corrupt, rpc, ri, rstale, rdone>>

procVars == <<alive, emu, hreg, arch, where, fi, forktype, v,
              prepare_log, parent_log, child_log, at_fork, x3, ppid>>

inuseVars == <<threads, in_used, running, forkedBy, purged>>

cacheVars == <<mem, jmptable, blocks, protected, hot, ninval, cpos, cip, cur,
               ent, smc>>

cancelVars == <<cancels, cancel_size, cancel_cap, quit, quitonlongjmp, tpos, ci,
                nextrec, pushed, last_pop, cleanup_log, thread_state,
                cancel_req, at_cancel, retval, joined>>

transVars == <<cache_lock, build, leaf_trans, leaf_calls>>

bridgeVars == <<gstack, host_ret, once, wrap_ip>>

flagVars == <<fcode, fpc, fpos, xflags, df, nzcv, arch_fl, last_read>>

runVars == <<run>>

snapVars == <<ctx>>

lockVars == <<lstate, lock_owner, held_at_fork>>

tlsVars == <<tls_mem, emu_tlsdata, segs_offs, tls_own>>

mmVars == <<mmaplist, mapping, chunks_heap, ncycles>>

opVars == <<is32bits, nextop, op_pos, op_count, op_stored>>

lifeVars == <<et, et_emu, thread_key, ndestroy>>

plVars == <<hx, hsp, hstack, pl_emu, pl_emu0, pl_pos>>

vars == <<atforkVars, procVars, inuseVars, cacheVars, cancelVars, transVars, bridgeVars, flagVars, runVars, snapVars, lockVars, tlsVars, mmVars, opVars, lifeVars, plVars>>

\* what the actions of each part leave alone
notAtfork == <<procVars, inuseVars, cacheVars, cancelVars, transVars, bridgeVars, flagVars, runVars, snapVars, lockVars, tlsVars, mmVars, opVars, lifeVars, plVars>>

notProc == <<atforkVars, inuseVars, cacheVars, cancelVars, transVars, bridgeVars, flagVars, runVars, snapVars, lockVars, tlsVars, mmVars, opVars, lifeVars, plVars>>

notInUse == <<atforkVars, procVars, cacheVars, cancelVars, transVars, bridgeVars, flagVars, runVars, snapVars, lockVars, tlsVars, mmVars, opVars, lifeVars, plVars>>

notCache == <<atforkVars, procVars, inuseVars, cancelVars, transVars, bridgeVars, flagVars, runVars, snapVars, lockVars, tlsVars, mmVars, opVars, lifeVars, plVars>>

notCancel == <<atforkVars, procVars, inuseVars, cacheVars, transVars, bridgeVars, flagVars, runVars, snapVars, lockVars, tlsVars, mmVars, opVars, lifeVars, plVars>>

\* the stepwise translation acts on the cache and on its own variables
notTrans == <<atforkVars, procVars, inuseVars, cancelVars, bridgeVars, flagVars, runVars, snapVars, lockVars, tlsVars, mmVars, opVars, lifeVars, plVars>>

\* a host-to-guest call acts on the thread's x64emu_t and on its own variables
notBridge == <<atforkVars, inuseVars, cacheVars, cancelVars, transVars, flagVars, runVars, snapVars, lockVars, tlsVars, mmVars, opVars, lifeVars, plVars>>

\* the flags scenario acts on its own variables
notFlags == <<atforkVars, procVars, inuseVars, cacheVars, cancelVars, transVars, bridgeVars, runVars, snapVars, lockVars, tlsVars, mmVars, opVars, lifeVars, plVars>>

\* the interpreter acts on the thread's x64emu_t and on its own variables
notRun == <<atforkVars, inuseVars, cacheVars, cancelVars, transVars, bridgeVars, flagVars, snapVars, lockVars, tlsVars, mmVars, opVars, lifeVars, plVars>>

\* a fork beside running registrations acts on the at-fork list, on the
\* processes and on the copies
notSnap == <<inuseVars, cacheVars, cancelVars, transVars, bridgeVars, flagVars, runVars, lockVars, tlsVars, mmVars, opVars, lifeVars, plVars>>

\* the locks scenario acts on its own variables
notLocks == <<atforkVars, procVars, inuseVars, cacheVars, cancelVars, transVars, bridgeVars, flagVars, runVars, snapVars, tlsVars, mmVars, opVars, lifeVars, plVars>>

notTls == <<atforkVars, procVars, inuseVars, cacheVars, cancelVars, transVars, bridgeVars, flagVars, runVars, snapVars, lockVars, mmVars, opVars, lifeVars, plVars>>

notMm == <<atforkVars, procVars, inuseVars, cacheVars, cancelVars, transVars, bridgeVars, flagVars, runVars, snapVars, lockVars, tlsVars, opVars, lifeVars, plVars>>

notOp == <<atforkVars, procVars, inuseVars, cacheVars, cancelVars, transVars, bridgeVars, flagVars, runVars, snapVars, lockVars, tlsVars, mmVars, lifeVars, plVars>>

notLife == <<atforkVars, procVars, inuseVars, cacheVars, cancelVars, transVars, bridgeVars, flagVars, runVars, snapVars, lockVars, tlsVars, mmVars, opVars, plVars>>

notPl == <<atforkVars, procVars, inuseVars, cacheVars, cancelVars, transVars, bridgeVars, flagVars, runVars, snapVars, lockVars, tlsVars, mmVars, opVars, lifeVars>>

(***************************************************************************)
(* At-fork registration: my_pthread_atfork / my___register_atfork.         *)
(* The array and atfork_sz / atfork_cap are modified without any lock, so  *)
(* every shared read and write is a step of its own.                       *)
(***************************************************************************)
RegThread == 0 .. (RegThreads - 1)

MaxSlots == RegThreads * RegPerThread + AtforkGrow

Slot == 0 .. (MaxSlots - 1)

\* atfork_fnc_t: the triple of guest function pointers; 0 is a null pointer
AtforkRec(prepare, parent, child) ==
    [prepare |-> prepare, parent |-> parent, child |-> child]

NullRec == AtforkRec(0, 0, 0)

\* the (nonzero) guest function pointer that thread t registers in its k-th call
Handler(t, k) == t * RegPerThread + k + 1

AtforkEmpty ==
    /\ atforks = [i \in Slot |-> NullRec]
    /\ atfork_sz = 0
    /\ atfork_cap = 0
    /\ heap_corrupt = FALSE

RegIdle ==
    /\ rpc = [t \in RegThread |-> "done"]
    /\ ri = [t \in RegThread |-> 0]
    /\ rstale = [t \in RegThread |-> FALSE]
    /\ rdone = [t \in RegThread |-> RegPerThread]

\* register_worker after the barrier: every thread is about to call pthread_atfork
InitAtforkVars ==
    /\ AtforkEmpty
    /\ rpc = [t \in RegThread |-> "check"]
    /\ ri = [t \in RegThread |-> 0]
    /\ rstale = [t \in RegThread |-> FALSE]
    /\ rdone = [t \in RegThread |-> 0]

\* if(atfork_sz == atfork_cap)
RegCheck(t) ==
    /\ rpc[t] = "check"
    /\ rpc' = [rpc EXCEPT ![t] = IF atfork_sz = atfork_cap THEN "grow" ELSE "take"]
    /\ UNCHANGED <<atforks, atfork_sz, atfork_cap, heap_corrupt, ri, rstale, rdone>>

\* atfork_cap += n; the argument of realloc (the current array) is read here
RegGrow(t) ==
    /\ rpc[t] = "grow"
    /\ atfork_cap' = atfork_cap + AtforkGrow
    /\ rstale' = [rstale EXCEPT ![t] = FALSE]
    /\ rpc' = [rpc EXCEPT ![t] = "realloc"]
    /\ UNCHANGED <<atforks, atfork_sz, heap_corrupt, ri, rdone>>

\* atforks = realloc(atforks, ...): frees the old array; a thread that still
\* holds the old pointer for its own realloc then reallocates freed memory
RegRealloc(t) ==
    /\ rpc[t] = "realloc"
    /\ heap_corrupt' = (heap_corrupt \/ rstale[t])
    /\ rstale' = [u \in RegThread |-> u # t /\ rpc[u] = "realloc"]
    /\ rpc' = [rpc EXCEPT ![t] = "take"]
    /\ UNCHANGED <<atforks, atfork_sz, atfork_cap, ri, rdone>>

\* int i = atfork_sz++ : the read
RegTake(t) ==
    /\ rpc[t] = "take"
    /\ ri' = [ri EXCEPT ![t] = atfork_sz]
    /\ rpc' = [rpc EXCEPT ![t] = "bump"]
    /\ UNCHANGED <<atforks, atfork_sz, atfork_cap, heap_corrupt, rstale, rdone>>

\* int i = atfork_sz++ : the write of the incremented value
RegBump(t) ==
    /\ rpc[t] = "bump"
    /\ atfork_sz' = ri[t] + 1
    /\ rpc' = [rpc EXCEPT ![t] = "store"]
    /\ UNCHANGED <<atforks, atfork_cap, heap_corrupt, ri, rstale, rdone>>

\* atforks[i].prepare = ...; .parent = ...; .child = ...; return 0
RegStore(t) ==
    /\ rpc[t] = "store"
    /\ atforks' = [atforks EXCEPT ![ri[t]] =
                      AtforkRec(Handler(t, rdone[t]), Handler(t, rdone[t]),
                                Handler(t, rdone[t]))]
    /\ heap_corrupt' = (heap_corrupt \/ ri[t] >= atfork_cap)
    /\ rdone' = [rdone EXCEPT ![t] = rdone[t] + 1]
    /\ rpc' = [rpc EXCEPT ![t] =
                  IF rdone[t] + 1 = RegPerThread THEN "done" ELSE "check"]
    /\ UNCHANGED <<atfork_sz, atfork_cap, ri, rstale>>


(***************************************************************************)
(* Processes.  A host fork duplicates the whole process; each process has  *)
(* its own copy of the forking thread's x64emu_t and of the counters the   *)
(* handlers of test 004 increment.  The at-fork list is not modified after *)
(* registration and is therefore the same in every copy.                   *)
(***************************************************************************)
Proc == 0 .. (MaxProcs - 1)

Gpr == 0 .. (NumGpr - 1)

\* a 64-bit register as its two dwords; lo is the dword R_Exx names, held as
\* the int that is stored into it
Reg(hi, lo) == [hi |-> hi, lo |-> lo]

\* the guest program: the effect on the guest state of the instruction at
\* st.ip, which like every translated instruction advances RIP.  The one at an
\* even address loads RBX with a value that has bits in its high dword, the
\* one at an odd address sets a flag.
GuestInstr(st) ==
    [regs |-> IF st.ip % 2 = 0 THEN [st.regs EXCEPT ![RBX] = Reg(1, 1)]
                               ELSE st.regs,
     eflags |-> IF st.ip % 2 = 0 THEN st.eflags ELSE 1,
     ip |-> (st.ip + 1) % CodeLen]

CodeAddr == 0 .. (CodeLen - 1)

ForkKinds == {ForkRegular, ForkPty, ForkVfork}

\* x64emu_t: regs[16], eflags, ip, quit, fork
NewX64Emu ==
    [regs |-> [r \in Gpr |-> Reg(0, 0)], eflags |-> 0, ip |-> 0, quit |-> 0,
     fork |-> 0]

\* the guest architectural state held by a x64emu_t or by the host registers
GuestState(e) == [regs |-> e.regs, eflags |-> e.eflags, ip |-> e.ip]

\* x10..x27 outside translated code: the host's own values, no guest state
HostRegs == [regs |-> [r \in Gpr |-> Reg(-1, -1)], eflags |-> -1, ip |-> -1]

NoFork == [emu |-> NewX64Emu, arch |-> GuestState(NewX64Emu), where |-> "none",
           child |-> -1]

\* a return from x64emu_fork that leaves regs[_AX] as the wrapper left it
KeepEAX(regs, x) == regs

\* R_EAX = x : writes the low dword of regs[_AX]
SetEAX(regs, x) == [regs EXCEPT ![RAX].lo = x]

ProcIdle ==
    /\ alive = [p \in Proc |-> FALSE]
    /\ emu = [p \in Proc |-> NewX64Emu]
    /\ hreg = [p \in Proc |-> HostRegs]
    /\ arch = [p \in Proc |-> GuestState(NewX64Emu)]
    /\ where = [p \in Proc |-> "none"]
    /\ fi = [p \in Proc |-> 0]
    /\ forktype = [p \in Proc |-> 0]
    /\ v = [p \in Proc |-> 0]
    /\ prepare_log = [p \in Proc |-> <<>>]
    /\ parent_log = [p \in Proc |-> <<>>]
    /\ child_log = [p \in Proc |-> <<>>]
    /\ at_fork = [p \in Proc |-> NoFork]
    /\ x3 = [p \in Proc |-> 0]
    /\ ppid = [p \in Proc |-> -1]

\* T records registered one after the other by a single thread: record i holds
\* the handler pointers i + 1
Registered(T) ==
    /\ atforks = [i \in Slot |-> IF i < T THEN AtforkRec(i + 1, i + 1, i + 1)
                                          ELSE NullRec]
    /\ atfork_sz = T
    /\ atfork_cap = ((T + AtforkGrow - 1) \div AtforkGrow) * AtforkGrow
    /\ heap_corrupt = FALSE

\* emulate(): process 0 is about to enter DynaRun with a fresh x64emu_t
InitProcVars ==
    /\ alive = [p \in Proc |-> p = 0]
    /\ emu = [p \in Proc |-> NewX64Emu]
    /\ hreg = [p \in Proc |-> HostRegs]
    /\ arch = [p \in Proc |-> GuestState(NewX64Emu)]
    /\ where = [p \in Proc |-> IF p = 0 THEN "loop" ELSE "none"]
    /\ fi = [p \in Proc |-> 0]
    /\ forktype = [p \in Proc |-> 0]
    /\ v = [p \in Proc |-> 0]
    /\ prepare_log = [p \in Proc |-> <<>>]
    /\ parent_log = [p \in Proc |-> <<>>]
    /\ child_log = [p \in Proc |-> <<>>]
    /\ at_fork = [p \in Proc |-> NoFork]
    /\ x3 = [p \in Proc |-> 0]
    /\ ppid = [p \in Proc |-> -1]

\* all registering threads have returned from their last pthread_atfork
AllRegistered == \A t \in RegThread : rpc[t] = "done"

\* the slots below atfork_sz that hold the record registered as (t, k)
SlotsOf(t, k) ==
    {i \in Slot : i < atfork_sz /\ atforks[i].prepare = Handler(t, k)}


\* the first process slot not in use, for the process a host fork creates
FreeProc == CHOOSE c \in Proc : ~alive[c] /\ \A d \in Proc : d < c => alive[d]

\* EmuCall(emu, fnc) from x64emu_fork: the guest handler runs and increments its
\* counter; log is the sequence of handlers that ran so far
EmuCall(log, fnc) == Append(log, fnc)

\* if(atforks[i].handler) EmuCall(emu, atforks[i].handler)
CallIfSet(log, fnc) == IF fnc # 0 THEN EmuCall(log, fnc) ELSE log

\* EmuRun: while(!emu->quit) -> native_prolog(emu, block): the prolog loads
\* regs[0..15], eflags and ip into x10..x27 and branches to the block
EnterBlock(p) ==
    /\ alive[p] /\ where[p] = "loop" /\ emu[p].quit = 0
    /\ hreg' = [hreg EXCEPT ![p] = GuestState(emu[p])]
    /\ where' = [where EXCEPT ![p] = "block"]
    /\ UNCHANGED <<alive, emu, arch, fi, forktype, v, prepare_log, parent_log,
                   child_log, at_fork, x3, ppid>>

\* EmuRun: while(!emu->quit) fails: DynaRun returns to its caller
LoopExit(p) ==
    /\ alive[p] /\ where[p] = "loop" /\ emu[p].quit # 0
    /\ where' = [where EXCEPT ![p] = "returned"]
    /\ UNCHANGED <<alive, emu, hreg, arch, fi, forktype, v, prepare_log,
                   parent_log, child_log, at_fork, x3, ppid>>

\* one translated guest instruction: it works on the host registers only
ExecGuest(p) ==
    /\ alive[p] /\ where[p] = "block"
    /\ hreg' = [hreg EXCEPT ![p] = GuestInstr(hreg[p])]
    /\ arch' = [arch EXCEPT ![p] = GuestInstr(hreg[p])]
    /\ UNCHANGED <<alive, emu, where, fi, forktype, v, prepare_log, parent_log,
                   child_log, at_fork, x3, ppid>>

\* call site of a wrapped function: "store ALL x86_64 registers back to
\* x64emu_t" (RIP is the one reloaded from offset 0x88 after the call), keep
\* the expected return RIP in x3, BLR wrapper
BridgeCall(p) ==
    /\ alive[p] /\ where[p] = "block"
    /\ emu' = [emu EXCEPT ![p].regs = hreg[p].regs,
                          ![p].eflags = hreg[p].eflags,
                          ![p].ip = hreg[p].ip]
    /\ x3' = [x3 EXCEPT ![p] = hreg[p].ip]
    /\ where' = [where EXCEPT ![p] = "wrapper"]
    /\ UNCHANGED <<alive, hreg, arch, fi, forktype, v, prepare_log, parent_log,
                   child_log, at_fork, ppid>>

\* fork() in the process p at position pos: the child c is a copy of p; fork
\* returns c's pid in p and 0 in c.  Used by x64emu_fork.
HostForkAt(p, c, pos) ==
    LET snap == [emu |-> emu[p], arch |-> arch[p], where |-> where[p], child |-> c]
    IN /\ alive' = [alive EXCEPT ![c] = TRUE]
       /\ emu' = [emu EXCEPT ![c] = emu[p]]
       /\ hreg' = [hreg EXCEPT ![c] = hreg[p]]
       /\ arch' = [arch EXCEPT ![c] = arch[p]]
       /\ forktype' = [forktype EXCEPT ![c] = forktype[p]]
       /\ x3' = [x3 EXCEPT ![c] = x3[p]]
       /\ prepare_log' = [prepare_log EXCEPT ![c] = prepare_log[p]]
       /\ parent_log' = [parent_log EXCEPT ![c] = parent_log[p]]
       /\ child_log' = [child_log EXCEPT ![c] = child_log[p]]
       /\ v' = [v EXCEPT ![p] = c, ![c] = 0]
       /\ at_fork' = [at_fork EXCEPT ![p] = snap, ![c] = snap]
       /\ where' = [where EXCEPT ![p] = pos, ![c] = pos]
       /\ fi' = [fi EXCEPT ![p] = 0, ![c] = 0]
       /\ ppid' = [ppid EXCEPT ![c] = p]

\* a fork wrapper that calls fork() itself, inside the wrapper
my_fork_direct(p, kind) ==
    /\ alive[p] /\ where[p] = "wrapper"
    /\ \E c \in Proc : ~alive[c]
    /\ HostForkAt(p, FreeProc, "bridge_ret")

\* my_fork / my_forkpty / my_vfork: emu->quit = 1; emu->fork = kind; return 0;
\* the wrapper glue stores the result in regs[_AX].  (The guest test resets its
\* handler counters right before calling fork.)
my_fork(p, kind) ==
    /\ alive[p] /\ where[p] = "wrapper"
    /\ emu' = [emu EXCEPT ![p].quit = 1, ![p].fork = kind, ![p].regs[RAX] = Reg(0, 0)]
    /\ arch' = [arch EXCEPT ![p].regs[RAX] = Reg(0, 0)]
    /\ prepare_log' = [prepare_log EXCEPT ![p] = <<>>]
    /\ parent_log' = [parent_log EXCEPT ![p] = <<>>]
    /\ child_log' = [child_log EXCEPT ![p] = <<>>]
    /\ where' = [where EXCEPT ![p] = "bridge_ret"]
    /\ UNCHANGED <<alive, hreg, fi, forktype, v, at_fork, x3, ppid>>

\* the exit bridge pushed by PushExit: the guest function returned, quit = 1
ExitBridge(p) ==
    /\ alive[p] /\ where[p] = "wrapper"
    /\ emu' = [emu EXCEPT ![p].quit = 1]
    /\ where' = [where EXCEPT ![p] = "bridge_ret"]
    /\ UNCHANGED <<alive, hreg, arch, fi, forktype, v, prepare_log, parent_log,
                   child_log, at_fork, x3, ppid>>

\* the guest calls exit(): the process ends inside the wrapper and its memory
\* is gone
GuestExit(p) ==
    /\ alive[p] /\ where[p] = "wrapper"
    /\ where' = [where EXCEPT ![p] = "exited"]
    /\ emu' = [emu EXCEPT ![p] = NewX64Emu]
    /\ hreg' = [hreg EXCEPT ![p] = HostRegs]
    /\ arch' = [arch EXCEPT ![p] = GuestState(NewX64Emu)]
    /\ x3' = [x3 EXCEPT ![p] = 0]
    /\ v' = [v EXCEPT ![p] = 0]
    /\ fi' = [fi EXCEPT ![p] = 0]
    /\ forktype' = [forktype EXCEPT ![p] = 0]
    /\ UNCHANGED <<alive, prepare_log, parent_log, child_log, at_fork, ppid>>

\* the guest calls exec(): the process goes on as another program, with a new
\* memory image; it is still the same child of its parent and has not
\* terminated
GuestExec(p) ==
    /\ alive[p] /\ where[p] = "wrapper"
    /\ where' = [where EXCEPT ![p] = "execed"]
    /\ emu' = [emu EXCEPT ![p] = NewX64Emu]
    /\ hreg' = [hreg EXCEPT ![p] = HostRegs]
    /\ arch' = [arch EXCEPT ![p] = GuestState(NewX64Emu)]
    /\ x3' = [x3 EXCEPT ![p] = 0]
    /\ v' = [v EXCEPT ![p] = 0]
    /\ fi' = [fi EXCEPT ![p] = 0]
    /\ forktype' = [forktype EXCEPT ![p] = 0]
    /\ UNCHANGED <<alive, prepare_log, parent_log, child_log, at_fork, ppid>>

\* the program started by exec() ends
ExecExit(p) ==
    /\ alive[p] /\ where[p] = "execed"
    /\ where' = [where EXCEPT ![p] = "exited"]
    /\ UNCHANGED <<alive, emu, hreg, arch, fi, forktype, v, prepare_log,
                   parent_log, child_log, at_fork, x3, ppid>>

\* a return from the wrapper that always continues inline
BridgeReturnInline(p) ==
    /\ alive[p] /\ where[p] = "bridge_ret"
    /\ hreg' = [hreg EXCEPT ![p] = GuestState(emu[p])]
    /\ where' = [where EXCEPT ![p] = "block"]
    /\ UNCHANGED <<alive, emu, arch, fi, forktype, v, prepare_log, parent_log,
                   child_log, at_fork, x3, ppid>>

\* after the wrapper: reload all guest registers from x64emu_t; continue inline
\* only if RIP is the expected one and the wrapper did not ask to quit
BridgeReturn(p) ==
    /\ alive[p] /\ where[p] = "bridge_ret"
    /\ hreg' = [hreg EXCEPT ![p] = GuestState(emu[p])]
    /\ where' = [where EXCEPT ![p] =
                    IF emu[p].ip = x3[p] /\ emu[p].quit = 0 THEN "block" ELSE "epilog"]
    /\ UNCHANGED <<alive, emu, arch, fi, forktype, v, prepare_log, parent_log,
                   child_log, at_fork, x3, ppid>>

\* R9..R15 are held in x19..x25, which with x26 (flags) and x27 (RIP) are
\* callee-saved registers of the host
CalleeSaved == R9 .. (NumGpr - 1)

\* an epilog that does not store x27 into emu->ip
EpilogKeepIp(e, h) ==
    [emu |-> [e EXCEPT !.regs = h.regs, !.eflags = h.eflags],
     hreg |-> [regs |-> [r \in Gpr |-> IF r \in CalleeSaved THEN HostRegs.regs[r]
                                                              ELSE h.regs[r]],
               eflags |-> HostRegs.eflags,
               ip |-> HostRegs.ip]]

\* an epilog that gives all of x10..x27 back to the host
EpilogRestoreAll(e, h) ==
    [emu |-> [e EXCEPT !.regs = h.regs, !.eflags = h.eflags, !.ip = h.ip],
     hreg |-> HostRegs]

\* arm64_epilog on the x64emu_t e with h in x10..x27: stp x10..x27 into e, then
\* ldp of the host's x19..x28 from the native stack; x10..x18 stay as they are
arm64_epilog(e, h) ==
    [emu |-> [e EXCEPT !.regs = h.regs, !.eflags = h.eflags, !.ip = h.ip],
     hreg |-> [regs |-> [r \in Gpr |-> IF r \in CalleeSaved THEN HostRegs.regs[r]
                                                              ELSE h.regs[r]],
               eflags |-> HostRegs.eflags,
               ip |-> HostRegs.ip]]

\* arm64_epilog: store x10..x27 into x64emu_t, restore the host's registers and
\* return to EmuRun (a block also ends here when its successor is not compiled),
\* whose code then owns the caller-saved x10..x18
Epilog(p) ==
    /\ alive[p] /\ where[p] \in {"block", "epilog"}
    /\ emu' = [emu EXCEPT ![p] = arm64_epilog(emu[p], hreg[p]).emu]
    /\ hreg' = [hreg EXCEPT ![p] = HostRegs]
    /\ where' = [where EXCEPT ![p] = "forkcheck"]
    /\ UNCHANGED <<alive, arch, fi, forktype, v, prepare_log, parent_log,
                   child_log, at_fork, x3, ppid>>

\* a fork check that leaves a pending request alone and goes on to the loop test
ForkCheckSkipped(p) ==
    /\ alive[p] /\ where[p] = "forkcheck"
    /\ where' = [where EXCEPT ![p] = "loop"]
    /\ UNCHANGED <<alive, emu, hreg, arch, fi, forktype, v, prepare_log,
                   parent_log, child_log, at_fork, x3, ppid>>

\* EmuRun / Run: if(emu->fork) { forktype = emu->fork; emu->quit = 0;
\* emu->fork = 0; emu = EmuFork(emu, forktype); }  -- entering x64emu_fork,
\* whose first loop starts at i = atfork_sz - 1
ForkCheck(p) ==
    /\ alive[p] /\ where[p] = "forkcheck"
    /\ IF emu[p].fork # 0
       THEN /\ forktype' = [forktype EXCEPT ![p] = emu[p].fork]
            /\ emu' = [emu EXCEPT ![p].quit = 0, ![p].fork = 0]
            /\ fi' = [fi EXCEPT ![p] = atfork_sz - 1]
            /\ where' = [where EXCEPT ![p] = "fork_prepare"]
       ELSE /\ where' = [where EXCEPT ![p] = "loop"]
            /\ UNCHANGED <<forktype, emu, fi>>
    /\ UNCHANGED <<alive, hreg, arch, v, prepare_log, parent_log, child_log,
                   at_fork, x3, ppid>>

\* x64emu_fork phase 1: for (int i=atfork_sz-1; i>=0; --i)
\*                          if(atforks[i].prepare) EmuCall(emu, atforks[i].prepare);
ForkPrepare(p) ==
    /\ alive[p] /\ where[p] = "fork_prepare"
    /\ IF fi[p] >= 0
       THEN /\ prepare_log' = [prepare_log EXCEPT ![p] =
                                  CallIfSet(@, atforks[fi[p]].prepare)]
            /\ fi' = [fi EXCEPT ![p] = fi[p] - 1]
            /\ UNCHANGED where
       ELSE /\ where' = [where EXCEPT ![p] = "fork_host"]
            /\ UNCHANGED <<prepare_log, fi>>
    /\ UNCHANGED <<alive, emu, hreg, arch, forktype, v, parent_log, child_log,
                   at_fork, x3, ppid>>

\* x64emu_fork phase 2: v = fork() (or forkpty) succeeds
HostFork(p) ==
    /\ alive[p] /\ where[p] = "fork_host"
    /\ \E c \in Proc : ~alive[c]
    /\ HostForkAt(p, FreeProc, "fork_after")

\* x64emu_fork phase 2: v = fork() fails, no process is created
HostForkFail(p) ==
    /\ alive[p] /\ where[p] = "fork_host"
    /\ v' = [v EXCEPT ![p] = -1]
    /\ fi' = [fi EXCEPT ![p] = 0]
    /\ where' = [where EXCEPT ![p] = "fork_after"]
    /\ UNCHANGED <<alive, emu, hreg, arch, forktype, prepare_log, parent_log,
                   child_log, at_fork, x3, ppid>>

\* x64emu_fork phase 3: if(v != 0) { parent loop } else if(v==0) { child loop }
ForkBranch(p) ==
    /\ alive[p] /\ where[p] = "fork_after"
    /\ where' = [where EXCEPT ![p] = IF v[p] # 0 THEN "fork_parent" ELSE "fork_child"]
    /\ UNCHANGED <<alive, emu, hreg, arch, fi, forktype, v, prepare_log,
                   parent_log, child_log, at_fork, x3, ppid>>

\* the loop header of both phase 3 loops: for (int i=0; i<atfork_sz; --i)
LoopCond(i) == i < atfork_sz

\* the loop increment of both phase 3 loops, as written in the source: --i
LoopStep(i) == i - 1

\* parent loop, an iteration with i inside the array, or the end of the loop:
\*     if(atforks[i].parent) EmuCall(emu, atforks[i].parent);
\* after the loop: if(forktype==3) waitpid(v, NULL, WEXITED);
ForkParent(p) ==
    /\ alive[p] /\ where[p] = "fork_parent"
    /\ IF LoopCond(fi[p])
       THEN /\ fi[p] >= 0
            /\ parent_log' = [parent_log EXCEPT ![p] =
                                 CallIfSet(@, atforks[fi[p]].parent)]
            /\ fi' = [fi EXCEPT ![p] = LoopStep(fi[p])]
            /\ UNCHANGED where
       ELSE /\ where' = [where EXCEPT ![p] =
                            IF forktype[p] = ForkVfork THEN "fork_wait" ELSE "fork_ret"]
            /\ UNCHANGED <<parent_log, fi>>
    /\ UNCHANGED <<alive, emu, hreg, arch, forktype, v, prepare_log, child_log,
                   at_fork, x3, ppid>>

\* child loop, an iteration with i inside the array, or the end of the loop:
\*     if(atforks[i].child) EmuCall(emu, atforks[i].child);
ForkChild(p) ==
    /\ alive[p] /\ where[p] = "fork_child"
    /\ IF LoopCond(fi[p])
       THEN /\ fi[p] >= 0
            /\ child_log' = [child_log EXCEPT ![p] =
                                CallIfSet(@, atforks[fi[p]].child)]
            /\ fi' = [fi EXCEPT ![p] = LoopStep(fi[p])]
            /\ UNCHANGED where
       ELSE /\ where' = [where EXCEPT ![p] = "fork_ret"]
            /\ UNCHANGED <<child_log, fi>>
    /\ UNCHANGED <<alive, emu, hreg, arch, forktype, v, prepare_log, parent_log,
                   at_fork, x3, ppid>>

\* an iteration of a phase 3 loop with i < 0: atforks[i] is read before the
\* start of the array.  The read is undefined; one outcome is that the word
\* read is 0, the handler is skipped and the loop goes on to the next index
ForkOobSkip(p) ==
    /\ alive[p] /\ where[p] \in {"fork_parent", "fork_child"}
    /\ LoopCond(fi[p]) /\ fi[p] < 0 /\ -fi[p] <= OobDepth
    /\ fi' = [fi EXCEPT ![p] = LoopStep(fi[p])]
    /\ UNCHANGED <<alive, emu, hreg, arch, where, forktype, v, prepare_log,
                   parent_log, child_log, at_fork, x3, ppid>>

\* the other outcomes of the read before the array: the address is not mapped,
\* or the word read is not 0 and EmuCall jumps to it; the process is lost
ForkOobFault(p) ==
    /\ alive[p] /\ where[p] \in {"fork_parent", "fork_child"}
    /\ LoopCond(fi[p]) /\ fi[p] < 0
    /\ where' = [where EXCEPT ![p] = "crashed"]
    /\ UNCHANGED <<alive, emu, hreg, arch, fi, forktype, v, prepare_log,
                   parent_log, child_log, at_fork, x3, ppid>>

\* the children of p that waitpid can still report
Children(p) == {c \in Proc : ppid[c] = p}

\* the children of p that have terminated
Terminated(p) == {c \in Children(p) : where[c] \in {"exited", "crashed"}}

\* the children waitpid(pid, NULL, WEXITED) of p can return: the child pid
\* itself, or for pid = -1 any child
Waitable(p, pid) ==
    IF pid = -1 THEN Terminated(p) ELSE Terminated(p) \cap {pid}

\* waitpid(pid, NULL, WEXITED) of p does not block: a child it names has
\* terminated, or p has no child at all
WaitReturns(p, pid) == Children(p) = {} \/ Waitable(p, pid) # {}

\* waitpid(v, NULL, WEXITED) returns: it has reaped a terminated child, or it
\* fails at once because there is no child to wait for (after a failed fork
\* v is -1, which names every child of the caller)
ForkWait(p) ==
    /\ alive[p] /\ where[p] = "fork_wait"
    /\ WaitReturns(p, v[p])
    /\ IF Children(p) = {}
       THEN UNCHANGED ppid
       ELSE \E c \in Waitable(p, v[p]) : ppid' = [ppid EXCEPT ![c] = -1]
    /\ where' = [where EXCEPT ![p] = "fork_ret"]
    /\ UNCHANGED <<alive, emu, hreg, arch, fi, forktype, v, prepare_log,
                   parent_log, child_log, at_fork, x3>>

\* R_EAX = v;  return emu;  -- EmuRun goes on with while(!emu->quit)
ForkReturn(p) ==
    /\ alive[p] /\ where[p] = "fork_ret"
    /\ emu' = [emu EXCEPT ![p].regs = SetEAX(@, v[p])]
    /\ arch' = [arch EXCEPT ![p].regs = SetEAX(@, v[p])]
    /\ where' = [where EXCEPT ![p] = "fork_done"]
    /\ UNCHANGED <<alive, hreg, fi, forktype, v, prepare_log, parent_log,
                   child_log, at_fork, x3, ppid>>

\* back in EmuRun after emu = EmuFork(emu, forktype)
EmuForkDone(p) ==
    /\ alive[p] /\ where[p] = "fork_done" /\ ~run[p].active
    /\ where' = [where EXCEPT ![p] = "loop"]
    /\ UNCHANGED <<alive, emu, hreg, arch, fi, forktype, v, prepare_log,
                   parent_log, child_log, at_fork, x3, ppid>>

\* ---------------------------------------------------------------------------
\* The interpreter loop Run(emu, step).  It works on x64emu_t directly and
\* keeps the guest instruction pointer in its local addr.  EmuRun calls
\* Run(emu, 1) for an address without a block; with the dynarec disabled the
\* thread runs in Run(emu, 0).
\* ---------------------------------------------------------------------------

\* no call of Run is active
NoRun == [active |-> FALSE, step |-> 0, addr |-> 0]

RunIdle == run = [p \in Proc |-> NoRun]

\* Run(emu, st) is entered with addr = R_RIP
RunEnter(p, st) ==
    /\ alive[p] /\ where[p] = "loop" /\ emu[p].quit = 0
    /\ run' = [run EXCEPT ![p] = [active |-> TRUE, step |-> st, addr |-> emu[p].ip]]
    /\ where' = [where EXCEPT ![p] = "run"]
    /\ UNCHANGED <<alive, emu, hreg, arch, fi, forktype, v, prepare_log,
                   parent_log, child_log, at_fork, x3, ppid>>

\* an interpreter step that leaves the guest state as it found it
RunExecNoAdvance(p) ==
    /\ alive[p] /\ where[p] = "run"
    /\ arch' = [arch EXCEPT ![p] = GuestState(emu[p])]
    /\ where' = [where EXCEPT ![p] = IF run[p].step # 0 THEN "run_fini" ELSE "run"]
    /\ UNCHANGED <<alive, emu, hreg, fi, forktype, v, prepare_log, parent_log,
                   child_log, at_fork, x3, ppid, run>>

\* one interpreted guest instruction, fetched at addr; with step set the loop
\* is left after it
RunExec(p) ==
    LET st == GuestInstr([GuestState(emu[p]) EXCEPT !.ip = run[p].addr])
    IN /\ alive[p] /\ where[p] = "run"
       /\ emu' = [emu EXCEPT ![p].regs = st.regs, ![p].eflags = st.eflags,
                             ![p].ip = st.ip]
       /\ arch' = [arch EXCEPT ![p] = st]
       /\ run' = [run EXCEPT ![p].addr = st.ip]
       /\ where' = [where EXCEPT ![p] = IF run[p].step # 0 THEN "run_fini" ELSE "run"]
       /\ UNCHANGED <<alive, hreg, fi, forktype, v, prepare_log, parent_log,
                      child_log, at_fork, x3, ppid>>

\* the interpreted guest calls fork(), forkpty() or vfork() through its
\* bridge: my_fork sets emu->quit = 1 and emu->fork = kind and returns 0, and
\* R_RIP is the return address.  What addr holds after the bridge is not
\* shown by the source: any address.  quit is set, so the loop is left.
RunFork(p, kind, a) ==
    /\ alive[p] /\ where[p] = "run"
    /\ emu' = [emu EXCEPT ![p].quit = 1, ![p].fork = kind, ![p].regs[RAX] = Reg(0, 0)]
    /\ arch' = [arch EXCEPT ![p].regs[RAX] = Reg(0, 0)]
    /\ prepare_log' = [prepare_log EXCEPT ![p] = <<>>]
    /\ parent_log' = [parent_log EXCEPT ![p] = <<>>]
    /\ child_log' = [child_log EXCEPT ![p] = <<>>]
    /\ run' = [run EXCEPT ![p].addr = a]
    /\ where' = [where EXCEPT ![p] = "run_fini"]
    /\ UNCHANGED <<alive, hreg, fi, forktype, v, at_fork, x3, ppid>>

\* the interpreted guest function returns to the exit bridge: quit = 1
RunExitBridge(p) ==
    /\ alive[p] /\ where[p] = "run"
    /\ emu' = [emu EXCEPT ![p].quit = 1]
    /\ where' = [where EXCEPT ![p] = "run_fini"]
    /\ UNCHANGED <<alive, hreg, arch, fi, forktype, v, prepare_log, parent_log,
                   child_log, at_fork, x3, ppid, run>>

\* a fork check of Run that leaves quit set
RunForkCheckKeepQuit(p) ==
    /\ alive[p] /\ where[p] = "run_fini"
    /\ IF emu[p].fork # 0
       THEN /\ run' = [run EXCEPT ![p].addr = emu[p].ip]
            /\ forktype' = [forktype EXCEPT ![p] = emu[p].fork]
            /\ emu' = [emu EXCEPT ![p].fork = 0]
            /\ fi' = [fi EXCEPT ![p] = atfork_sz - 1]
            /\ where' = [where EXCEPT ![p] = "fork_prepare"]
       ELSE /\ run' = [run EXCEPT ![p] = NoRun]
            /\ where' = [where EXCEPT ![p] =
                            IF run[p].step # 0 THEN "forkcheck" ELSE "returned"]
            /\ UNCHANGED <<forktype, emu, fi>>
    /\ UNCHANGED <<alive, hreg, arch, v, prepare_log, parent_log, child_log,
                   at_fork, x3, ppid>>

\* Run, after its loop: if(emu->fork) { addr = R_RIP; forktype = emu->fork;
\* emu->quit = 0; emu->fork = 0; emu = EmuFork(emu, forktype); ... }
\* -- entering x64emu_fork; without a request Run returns, to EmuRun when it
\* was called as Run(emu, 1), else to DynaRun's caller
RunForkCheck(p) ==
    /\ alive[p] /\ where[p] = "run_fini"
    /\ IF emu[p].fork # 0
       THEN /\ run' = [run EXCEPT ![p].addr = emu[p].ip]
            /\ forktype' = [forktype EXCEPT ![p] = emu[p].fork]
            /\ emu' = [emu EXCEPT ![p].quit = 0, ![p].fork = 0]
            /\ fi' = [fi EXCEPT ![p] = atfork_sz - 1]
            /\ where' = [where EXCEPT ![p] = "fork_prepare"]
       ELSE /\ run' = [run EXCEPT ![p] = NoRun]
            /\ where' = [where EXCEPT ![p] =
                            IF run[p].step # 0 THEN "forkcheck" ELSE "returned"]
            /\ UNCHANGED <<forktype, emu, fi>>
    /\ UNCHANGED <<alive, hreg, arch, v, prepare_log, parent_log, child_log,
                   at_fork, x3, ppid>>

\* Run, after emu = EmuFork(emu, forktype):  if(step) return 0;  goto x64emurun;
RunForkDone(p) ==
    /\ alive[p] /\ where[p] = "fork_done" /\ run[p].active
    /\ IF run[p].step # 0
       THEN /\ run' = [run EXCEPT ![p] = NoRun]
            /\ where' = [where EXCEPT ![p] = "forkcheck"]
       ELSE /\ where' = [where EXCEPT ![p] = "run"]
            /\ UNCHANGED run
    /\ UNCHANGED <<alive, emu, hreg, arch, fi, forktype, v, prepare_log,
                   parent_log, child_log, at_fork, x3, ppid>>

\* the host fork inside a call of Run: the child is inside the same call
RunHostFork(p) ==
    /\ HostFork(p)
    /\ run' = [run EXCEPT ![FreeProc] = run[p]]

\* ---------------------------------------------------------------------------
\* A fork beside running registrations.  x64emu_fork reads atfork_sz and
\* atforks[] of the shared context as they are at each read; the registering
\* threads are threads of the parent, and the child works on the copy of the
\* context that the host fork made.
\* ---------------------------------------------------------------------------

NoCtx == [atforks |-> [i \in Slot |-> NullRec], atfork_sz |-> 0]

SnapIdle == ctx = [p \in Proc |-> NoCtx]

\* a host fork whose child finds one record more than the parent had
SnapHostForkAdds(p) ==
    /\ HostFork(p)
    /\ ctx' = [ctx EXCEPT ![FreeProc] =
                  [atforks |-> atforks, atfork_sz |-> atfork_sz + 1]]

\* x64emu_fork phase 2 with the copy of the context that fork() makes
SnapHostFork(p) ==
    /\ HostFork(p)
    /\ ctx' = [ctx EXCEPT ![FreeProc] = [atforks |-> atforks, atfork_sz |-> atfork_sz]]

\* child loop, run by the child on its copy of the context:
\*     for (int i=0; i<my_context->atfork_sz; --i)
\*         if(my_context->atforks[i].child) EmuCall(emu, my_context->atforks[i].child);
\* with i < 0 the read is before the array: it yields 0 and the loop goes on,
\* or the process is lost
SnapForkChild(p) ==
    /\ alive[p] /\ where[p] = "fork_child"
    /\ IF LoopStep(fi[p]) < fi[p] /\ fi[p] < ctx[p].atfork_sz
       THEN \/ /\ fi[p] >= 0
               /\ child_log' = [child_log EXCEPT ![p] =
                                   CallIfSet(@, ctx[p].atforks[fi[p]].child)]
               /\ fi' = [fi EXCEPT ![p] = LoopStep(fi[p])]
               /\ UNCHANGED where
            \/ /\ fi[p] < 0 /\ -fi[p] <= OobDepth
               /\ fi' = [fi EXCEPT ![p] = LoopStep(fi[p])]
               /\ UNCHANGED <<child_log, where>>
            \/ /\ fi[p] < 0
               /\ where' = [where EXCEPT ![p] = "crashed"]
               /\ UNCHANGED <<child_log, fi>>
       ELSE /\ where' = [where EXCEPT ![p] = "fork_ret"]
            /\ UNCHANGED <<child_log, fi>>
    /\ UNCHANGED <<alive, emu, hreg, arch, forktype, v, prepare_log, parent_log,
                   at_fork, x3, ppid>>

\* the parent's iterations before the array, as ForkOobSkip and ForkOobFault
SnapParentOob(p) ==
    /\ where[p] = "fork_parent"
    /\ ForkOobSkip(p) \/ ForkOobFault(p)

\* ---------------------------------------------------------------------------
\* in_used counters of translated blocks across fork (test 001)
\* ---------------------------------------------------------------------------

IuProc == 0 .. (InUseProcs - 1)

\* thread 0 is the main thread, the others are the workers
MainThread == 0

Thread == 0 .. NumWorkers

\* the translated blocks of hot_compute_0 .. hot_compute_(NUM_HOT_FUNCS-1)
Block == 0 .. (NumHotFuncs - 1)

NoBlock == -1

\* the threads of p that are inside block b
Inside(p, b) == {t \in threads[p] : running[p][t] = b}

\* atfork_child_custommem(): what the child does with the inherited counters.
\* It reinitialises the allocator's locks; the counters are left as inherited
\* ("missing reset").
atfork_child_custommem(counters) == counters

InUseIdle ==
    /\ threads = [p \in IuProc |-> {}]
    /\ in_used = [p \in IuProc |-> [b \in Block |-> 0]]
    /\ running = [p \in IuProc |-> [t \in Thread |-> NoBlock]]
    /\ forkedBy = [p \in IuProc |-> -1]
    /\ purged = [p \in IuProc |-> {}]

\* main() starts: one process with its main thread, blocks not in use
InitInUseVars ==
    /\ threads = [p \in IuProc |-> IF p = 0 THEN {MainThread} ELSE {}]
    /\ in_used = [p \in IuProc |-> [b \in Block |-> 0]]
    /\ running = [p \in IuProc |-> [t \in Thread |-> NoBlock]]
    /\ forkedBy = [p \in IuProc |-> -1]
    /\ purged = [p \in IuProc |-> {}]

\* pthread_create(&workers[i], NULL, worker_func, i) by the main thread of the
\* test's first process; the forked processes of the test create no threads
worker_create(p, t) ==
    /\ forkedBy[p] = -1
    /\ MainThread \in threads[p] /\ running[p][MainThread] = NoBlock
    /\ t \in Thread \ threads[p]
    /\ threads' = [threads EXCEPT ![p] = @ \cup {t}]
    /\ UNCHANGED <<in_used, running, forkedBy, purged>>

\* a thread calls a hot function: entry into its block, in_used + 1.  Worker i
\* uses hot function i % NUM_HOT_FUNCS, the main thread calls any of them.
\* A block that was purged is translated again first: a new block, in_used 0.
hot_compute_entry(p, t, b) ==
    /\ t \in threads[p] /\ running[p][t] = NoBlock
    /\ t # MainThread => b = t % NumHotFuncs
    /\ in_used' = [in_used EXCEPT ![p][b] = IF b \in purged[p] THEN 1 ELSE @ + 1]
    /\ purged' = [purged EXCEPT ![p] = @ \ {b}]
    /\ running' = [running EXCEPT ![p][t] = b]
    /\ UNCHANGED <<threads, forkedBy>>

\* the hot function returns: exit from its block, in_used - 1
hot_compute_exit(p, t) ==
    /\ t \in threads[p] /\ running[p][t] # NoBlock
    /\ in_used' = [in_used EXCEPT ![p][running[p][t]] = @ - 1]
    /\ running' = [running EXCEPT ![p][t] = NoBlock]
    /\ UNCHANGED <<threads, forkedBy, purged>>

\* stop_workers is set: a worker that is out of its hot function returns and is
\* joined
worker_join(p, t) ==
    /\ t \in threads[p] /\ t # MainThread /\ running[p][t] = NoBlock
    /\ MainThread \in threads[p] /\ running[p][MainThread] = NoBlock
    /\ threads' = [threads EXCEPT ![p] = @ \ {t}]
    /\ UNCHANGED <<in_used, running, forkedBy, purged>>

\* pid = fork() by the main thread of p, which is outside translated code when
\* the host fork runs.  The child c gets a copy of the memory, the block
\* counters included, and the forking thread only; then the child's at-fork
\* handler of the allocator runs.
fork_in_used(p, c) ==
    /\ MainThread \in threads[p] /\ running[p][MainThread] = NoBlock
    /\ threads[c] = {} /\ forkedBy[c] = -1 /\ c # 0
    /\ \A d \in IuProc : (d # 0 /\ d < c) => forkedBy[d] # -1
    /\ threads' = [threads EXCEPT ![c] = {MainThread}]
    /\ in_used' = [in_used EXCEPT ![c] = atfork_child_custommem(in_used[p])]
    /\ running' = [running EXCEPT ![c] = [t \in Thread |-> NoBlock]]
    /\ forkedBy' = [forkedBy EXCEPT ![c] = p]
    /\ purged' = [purged EXCEPT ![c] = purged[p]]

\* _exit(0) in a forked process
child_exit(c) ==
    /\ forkedBy[c] # -1 /\ threads[c] # {}
    /\ running[c][MainThread] = NoBlock
    /\ threads' = [threads EXCEPT ![c] = {}]
    /\ in_used' = [in_used EXCEPT ![c] = [b \in Block |-> 0]]
    /\ purged' = [purged EXCEPT ![c] = {}]
    /\ UNCHANGED <<running, forkedBy>>

\* a purge scan in process p under memory pressure comes to block b:
\* PurgeDynarecMap frees the block if in_used == 0 and skips it otherwise
purge_scan(p, b) ==
    /\ threads[p] # {}
    /\ b \notin purged[p]
    /\ in_used[p][b] = 0
    /\ purged' = [purged EXCEPT ![p] = @ \cup {b}]
    /\ in_used' = in_used
    /\ UNCHANGED <<threads, running, forkedBy>>

\* ---------------------------------------------------------------------------
\* translated-block cache, block linking and self-modifying code
\* ---------------------------------------------------------------------------

CThread == 0 .. (CacheThreads - 1)

CAddr == 0 .. (CacheAddrs - 1)

Byte == 1 .. MaxByte

BlockId == 1 .. MaxBlocks

\* the page of a code address
PageOf(a) == a \div PageLen

Page == {PageOf(a) : a \in CAddr}

\* the leaf slot value of an address without block: the address of
\* native_epilog, which stores the registers and returns to EmuRun
native_epilog == 0

\* X31_hash_code over the source bytes of a block (one byte here): h = h*31 + b
X31_hash_code(b) == 0 * 31 + b

\* a block id not in use
FreeBlock == [state |-> "free", addr |-> 0, code |-> 0, hash |-> 0,
              always_test |-> 0, in_used |-> 0,
              written |-> FALSE, flushed |-> FALSE]

\* FillBlock64 for the address a: the code is generated from the bytes at a,
\* their hash is kept, and blocks of hot pages check that hash on entry; no
\* thread is inside the new block
FillBlock64(a) ==
    [state |-> "live", addr |-> a, code |-> mem[a],
     hash |-> X31_hash_code(mem[a]),
     always_test |-> IF hot[PageOf(a)] THEN 2 ELSE 0,
     in_used |-> 0,
     written |-> TRUE, flushed |-> TRUE]

\* the threads executing inside block b
Users(b) == {t \in CThread : cpos[t] = "inblock" /\ cur[t] = b}

\* an entry that also marks the code of the block as to be flushed again
BlockReflush(blks, b) == [blks EXCEPT ![b].in_used = @ + 1, ![b].flushed = FALSE]

\* entry into block b: in_used + 1
BlockEntry(blks, b) == [blks EXCEPT ![b].in_used = @ + 1]

\* exit from block b: in_used - 1
BlockExit(blks, b) == [blks EXCEPT ![b].in_used = @ - 1]

\* a purge scan that frees a block whatever its counter
PurgeAny(b) == TRUE

\* PurgeDynarecMap checks in_used == 0
PurgeUnused(b) == blocks[b].in_used = 0

\* the translated blocks whose source is on page pg
NoneOnPage(pg) == {}

OnPage(pg) == {b \in BlockId : blocks[b].state = "live" /\ PageOf(blocks[b].addr) = pg}

\* invalidation of the blocks in dead, block side: they stay allocated, marked,
\* until nothing runs in them
MarkInvalid(blks, dead) ==
    [b \in BlockId |-> IF b \in dead THEN [blks[b] EXCEPT !.state = "invalid"]
                                     ELSE blks[b]]

\* invalidation of the blocks in dead, table side: every slot that leads to
\* one of them leads to native_epilog again
KeepSlots(tbl, dead) == tbl

ClearSlots(tbl, dead) ==
    [a \in CAddr |-> IF tbl[a] \in dead THEN native_epilog ELSE tbl[a]]

\* an entry that does not check the hash
HashSkipped(b) == TRUE

\* the block's hash is checked before execution: TRUE when the block may run
HashOk(b) ==
    blocks[b].always_test = 0
        \/ X31_hash_code(mem[blocks[b].addr]) = blocks[b].hash

NoSmc == [addr |-> -1, target |-> 0, others |-> 0, count |-> 0]

NoEntry == [code |-> 0, bytes |-> 0]

CacheIdle ==
    /\ mem = [a \in CAddr |-> 1]
    /\ jmptable = [a \in CAddr |-> native_epilog]
    /\ blocks = [b \in BlockId |-> FreeBlock]
    /\ protected = [pg \in Page |-> FALSE]
    /\ hot = [pg \in Page |-> FALSE]
    /\ ninval = 0
    /\ cpos = [t \in CThread |-> "none"]
    /\ cip = [t \in CThread |-> 0]
    /\ cur = [t \in CThread |-> 0]
    /\ ent = [t \in CThread |-> NoEntry]
    /\ smc = NoSmc

\* the guest threads are in EmuRun, nothing is translated yet
InitCacheVars ==
    /\ mem = [a \in CAddr |-> 1]
    /\ jmptable = [a \in CAddr |-> native_epilog]
    /\ blocks = [b \in BlockId |-> FreeBlock]
    /\ protected = [pg \in Page |-> FALSE]
    /\ hot = [pg \in Page |-> FALSE]
    /\ ninval = 0
    /\ cpos = [t \in CThread |-> "loop"]
    /\ cip = [t \in CThread |-> 0]
    /\ cur = [t \in CThread |-> 0]
    /\ ent = [t \in CThread |-> NoEntry]
    /\ smc = NoSmc

\* EmuRun: block = DBGetBlock(emu, RIP, 1) for an address without block: the
\* block is compiled, its pages are marked with protectDB and it is linked into
\* the page table
DBGetBlock(t) ==
    /\ cpos[t] = "loop" /\ jmptable[cip[t]] = native_epilog
    /\ \E b \in BlockId :
          /\ blocks[b].state = "free"
          /\ \A c \in BlockId : c < b => blocks[c].state # "free"
          /\ blocks' = [blocks EXCEPT ![b] = FillBlock64(cip[t])]
          /\ jmptable' = [jmptable EXCEPT ![cip[t]] = b]
    /\ protected' = [protected EXCEPT ![PageOf(cip[t])] = TRUE]
    /\ UNCHANGED <<mem, hot, ninval, cpos, cip, cur, ent, smc>>

\* EmuRun: no block could be built (no executable memory left): Run(emu, 1),
\* the interpreter executes the code at RIP from the guest bytes and goes on
\* at the next address
InterpFallback(t) ==
    /\ cpos[t] = "loop" /\ jmptable[cip[t]] = native_epilog
    /\ \A b \in BlockId : blocks[b].state # "free"
    /\ \E a \in CAddr : cip' = [cip EXCEPT ![t] = a]
    /\ UNCHANGED <<mem, jmptable, blocks, protected, hot, ninval, cpos, cur, ent,
                   smc>>

\* EmuRun: the block of RIP exists: native_prolog(emu, block->block).  A block
\* with always_test first compares the hash of the current bytes with its own;
\* if they differ the block is dropped, to be recompiled.
CacheEnter(t) ==
    /\ cpos[t] = "loop" /\ jmptable[cip[t]] # native_epilog
    /\ LET b == jmptable[cip[t]]
       IN IF HashOk(b)
          THEN /\ cpos' = [cpos EXCEPT ![t] = "inblock"]
               /\ cur' = [cur EXCEPT ![t] = b]
               /\ ent' = [ent EXCEPT ![t] = [code |-> blocks[b].code,
                                             bytes |-> mem[cip[t]]]]
               /\ blocks' = BlockEntry(blocks, b)
               /\ UNCHANGED <<jmptable, ninval>>
          ELSE /\ ninval < MaxInval
               /\ blocks' = MarkInvalid(blocks, {b})
               /\ jmptable' = ClearSlots(jmptable, {b})
               /\ ninval' = ninval + 1
               /\ UNCHANGED <<cpos, cur, ent>>
    /\ UNCHANGED <<mem, protected, hot, cip, smc>>

\* the end of a block: RIP is the target a, and the inline lookup in the page
\* table branches to the block of a, or to native_epilog and so back to EmuRun;
\* the thread leaves its block (in_used - 1) and enters the next (in_used + 1)
BlockJump(t, a) ==
    /\ cpos[t] = "inblock"
    /\ cip' = [cip EXCEPT ![t] = a]
    /\ IF jmptable[a] # native_epilog /\ HashOk(jmptable[a])
       THEN /\ cur' = [cur EXCEPT ![t] = jmptable[a]]
            /\ ent' = [ent EXCEPT ![t] = [code |-> blocks[jmptable[a]].code,
                                          bytes |-> mem[a]]]
            /\ blocks' = BlockEntry(BlockExit(blocks, cur[t]), jmptable[a])
            /\ UNCHANGED cpos
       ELSE /\ cpos' = [cpos EXCEPT ![t] = "loop"]
            /\ cur' = [cur EXCEPT ![t] = 0]
            /\ ent' = [ent EXCEPT ![t] = NoEntry]
            /\ blocks' = BlockExit(blocks, cur[t])
    /\ UNCHANGED <<mem, jmptable, protected, hot, ninval, smc>>

\* a guest store of x to the code address a.  On a page marked by protectDB it
\* raises SIGSEGV: the handler marks the page hot, invalidates the compiled
\* blocks of the page, removes the protection, and the write proceeds.
GuestWrite(t, a, x) ==
    /\ cpos[t] \in {"loop", "inblock"} /\ mem[a] # x
    /\ mem' = [mem EXCEPT ![a] = x]
    /\ IF protected[PageOf(a)]
       THEN LET dead == OnPage(PageOf(a))
            IN /\ ninval + Cardinality(dead) <= MaxInval
               /\ hot' = [hot EXCEPT ![PageOf(a)] = TRUE]
               /\ blocks' = MarkInvalid(blocks, dead)
               /\ jmptable' = ClearSlots(jmptable, dead)
               /\ ninval' = ninval + Cardinality(dead)
               /\ protected' = [protected EXCEPT ![PageOf(a)] = FALSE]
               /\ smc' = [addr |-> a,
                          target |-> Cardinality({b \in dead : blocks[b].addr = a}),
                          others |-> Cardinality({b \in dead : blocks[b].addr # a}),
                          count |-> Cardinality(dead)]
       ELSE UNCHANGED <<hot, blocks, jmptable, ninval, protected, smc>>
    /\ UNCHANGED <<cpos, cip, cur, ent>>

\* PurgeDynarecMap: a block with in_used == 0 is freed, be it invalidated or
\* still current; a block in use is skipped
PurgeDynarecMap(b) ==
    /\ blocks[b].state # "free" /\ PurgeUnused(b)
    /\ blocks' = [blocks EXCEPT ![b] = FreeBlock]
    /\ jmptable' = ClearSlots(jmptable, {b})
    /\ UNCHANGED <<mem, protected, hot, ninval, cpos, cip, cur, ent, smc>>

\* ---------------------------------------------------------------------------
\* translation of a block step by step, by several threads
\* ---------------------------------------------------------------------------

\* no thread
NoThread == -1

\* the address of the leaf function that the guest's loop calls
LeafAddr == 0

\* a lookup that never finds a block
AlwaysMiss(a) == TRUE

\* the lookup returns the native_epilog address: the block doesn't exist yet
BlockMiss(a) == jmptable[a] = native_epilog

\* a translation that leaves the page table as it is
LeaveTable(tbl, a, b) == tbl

\* the block b is linked into the page table, for the address a
LinkBlock(tbl, a, b) == [tbl EXCEPT ![a] = b]

\* a block counts as done as soon as its memory is allocated
AllocDone(b) == TRUE

\* pass 3 is over for block b: the code is written, with Table64 and instsize,
\* and the instruction cache is flushed
Pass3Done(b) == blocks[b].written /\ blocks[b].flushed

TransIdle ==
    /\ cache_lock = NoThread
    /\ build = [t \in CThread |-> 0]
    /\ leaf_trans = 0
    /\ leaf_calls = 0

\* the counters of the leaf function, kept over a step of the cache: both start
\* again when the leaf function's block leaves the page table, a translation
\* of the leaf function that ends is counted, and so is an entry (entered)
LeafCount(entered) ==
    LET dropped == ~BlockMiss(LeafAddr) /\ jmptable'[LeafAddr] = native_epilog
        done == \E b \in BlockId : /\ blocks[b].state = "building"
                                   /\ blocks'[b].state = "live"
                                   /\ blocks'[b].addr = LeafAddr
    IN /\ leaf_trans' = IF dropped THEN 0
                        ELSE IF done THEN leaf_trans + 1 ELSE leaf_trans
       /\ leaf_calls' = IF dropped \/ done THEN 0
                        ELSE IF entered /\ leaf_calls < MaxCalls
                             THEN leaf_calls + 1 ELSE leaf_calls

\* EmuRun: DBGetBlock(emu, RIP, 1) looks RIP up, without lock, and finds no
\* block: one has to be compiled
TransMiss(t) ==
    /\ cpos[t] = "loop" /\ BlockMiss(cip[t])
    /\ \E b \in BlockId : blocks[b].state = "free"
    /\ cpos' = [cpos EXCEPT ![t] = "miss"]
    /\ UNCHANGED <<mem, jmptable, blocks, protected, hot, ninval, cip, cur, ent,
                   smc, transVars>>

\* the thread takes the lock that block compilation holds
TransLock(t) ==
    /\ cpos[t] = "miss"
    /\ cache_lock = NoThread
    /\ cache_lock' = t
    /\ cpos' = [cpos EXCEPT ![t] = "locked"]
    /\ UNCHANGED <<mem, jmptable, blocks, protected, hot, ninval, cip, cur, ent,
                   smc, build, leaf_trans, leaf_calls>>

\* under the lock the address is looked up again; if it still has no block,
\* AllocDynarecMap reserves executable memory for it; without memory no block
\* is built
TransAlloc(t) ==
    /\ cpos[t] = "locked"
    /\ IF BlockMiss(cip[t]) /\ \E b \in BlockId : blocks[b].state = "free"
       THEN \E b \in BlockId :
               /\ blocks[b].state = "free"
               /\ \A c \in BlockId : c < b => blocks[c].state # "free"
               /\ blocks' = [blocks EXCEPT ![b] =
                                [FreeBlock EXCEPT !.state = "building",
                                                  !.addr = cip[t]]]
               /\ build' = [build EXCEPT ![t] = b]
               /\ cpos' = [cpos EXCEPT ![t] = "alloc"]
               /\ UNCHANGED cache_lock
       ELSE /\ cpos' = [cpos EXCEPT ![t] = "loop"]
            /\ cache_lock' = NoThread
            /\ UNCHANGED <<blocks, build>>
    /\ UNCHANGED <<mem, jmptable, protected, hot, ninval, cip, cur, ent, smc,
                   leaf_trans, leaf_calls>>

\* native_pass3 writes the code of the block from the guest bytes, whose pages
\* are marked with protectDB
TransPass3(t) ==
    /\ cpos[t] = "alloc"
    /\ LET b == build[t]
           a == blocks[b].addr
       IN /\ blocks' = [blocks EXCEPT ![b] =
                           [FillBlock64(a) EXCEPT !.state = "building",
                                                  !.flushed = FALSE]]
          /\ protected' = [protected EXCEPT ![PageOf(a)] = TRUE]
    /\ cpos' = [cpos EXCEPT ![t] = "pass3"]
    /\ UNCHANGED <<mem, jmptable, hot, ninval, cip, cur, ent, smc, transVars>>

\* ClearCache flushes the instruction cache over the code of the block
TransFlush(t) ==
    /\ cpos[t] = "pass3"
    /\ blocks' = [blocks EXCEPT ![build[t]].flushed = TRUE]
    /\ cpos' = [cpos EXCEPT ![t] = "flush"]
    /\ UNCHANGED <<mem, jmptable, protected, hot, ninval, cip, cur, ent, smc,
                   transVars>>

\* the finished block is cached in the page table and the lock is released
TransPublish(t) ==
    /\ cpos[t] \in {"alloc", "pass3", "flush"} /\ Pass3Done(build[t])
    /\ leaf_trans < MaxTrans
    /\ LET b == build[t]
       IN /\ blocks' = [blocks EXCEPT ![b].state = "live"]
          /\ jmptable' = LinkBlock(jmptable, blocks[b].addr, b)
    /\ cache_lock' = NoThread
    /\ build' = [build EXCEPT ![t] = 0]
    /\ cpos' = [cpos EXCEPT ![t] = "loop"]
    /\ LeafCount(FALSE)
    /\ UNCHANGED <<mem, protected, hot, ninval, cip, cur, ent, smc>>

\* EmuRun finds the block of RIP and runs it
TransEnter(t) ==
    /\ CacheEnter(t)
    /\ LeafCount(cpos'[t] = "inblock" /\ cip[t] = LeafAddr)
    /\ UNCHANGED <<cache_lock, build>>

\* the end of a block, with the inline lookup of the next one
TransJump(t, a) ==
    /\ BlockJump(t, a)
    /\ LeafCount(cpos'[t] = "inblock" /\ a = LeafAddr)
    /\ UNCHANGED <<cache_lock, build>>

\* a guest store; the handler of the write fault invalidates blocks, and as a
\* mutator of the cache it runs when no other holds the lock
LockedWrite(t, a, x) ==
    /\ protected[PageOf(a)] => cache_lock = NoThread
    /\ GuestWrite(t, a, x)
    /\ LeafCount(FALSE)
    /\ UNCHANGED <<cache_lock, build>>

\* the purge scan, a mutator of the cache as well
LockedPurge(b) ==
    /\ cache_lock = NoThread
    /\ PurgeDynarecMap(b)
    /\ LeafCount(FALSE)
    /\ UNCHANGED <<cache_lock, build>>

\* ---------------------------------------------------------------------------
\* a host-to-guest call: pthread_routine, and the wrappers the guest calls
\* ---------------------------------------------------------------------------

\* the address of the exit bridge, outside the guest's code
exit_bridge == CodeLen

\* host_ret before DynaRun's caller has taken the return value
NoRet == Reg(-1, -1)

\* the values a wrapper stores in regs[_AX]
WrapResult == {1, 2}

BridgeIdle ==
    /\ gstack = [p \in Proc |-> <<>>]
    /\ host_ret = [p \in Proc |-> NoRet]
    /\ once = [p \in Proc |-> NewX64Emu]
    /\ wrap_ip = [p \in Proc |-> -1]

\* pthread_create has started the thread: it is in pthread_routine, before the
\* stack frame of the guest function is set up
InitBridgeVars ==
    /\ alive = [p \in Proc |-> p = 0]
    /\ emu = [p \in Proc |-> NewX64Emu]
    /\ hreg = [p \in Proc |-> HostRegs]
    /\ arch = [p \in Proc |-> GuestState(NewX64Emu)]
    /\ where = [p \in Proc |-> IF p = 0 THEN "host" ELSE "none"]
    /\ fi = [p \in Proc |-> 0]
    /\ forktype = [p \in Proc |-> 0]
    /\ v = [p \in Proc |-> 0]
    /\ prepare_log = [p \in Proc |-> <<>>]
    /\ parent_log = [p \in Proc |-> <<>>]
    /\ child_log = [p \in Proc |-> <<>>]
    /\ at_fork = [p \in Proc |-> NoFork]
    /\ x3 = [p \in Proc |-> 0]
    /\ ppid = [p \in Proc |-> -1]
    /\ BridgeIdle

\* a call of the guest function without PushExit
HostCallNoExit(p, fnc) ==
    /\ alive[p] /\ where[p] = "host"
    /\ emu' = [emu EXCEPT ![p].ip = fnc, ![p].regs[RDI] = Reg(0, 1)]
    /\ arch' = [arch EXCEPT ![p] = GuestState(emu'[p])]
    /\ where' = [where EXCEPT ![p] = "loop"]
    /\ UNCHANGED <<alive, hreg, fi, forktype, v, prepare_log, parent_log,
                   child_log, at_fork, x3, ppid, gstack, host_ret, once, wrap_ip>>

\* pthread_routine: PushExit(emu); R_RIP = et->fnc; R_RDI = et->arg; DynaRun(emu)
HostCall(p, fnc) ==
    /\ alive[p] /\ where[p] = "host"
    /\ gstack' = [gstack EXCEPT ![p] = <<exit_bridge>>]
    /\ emu' = [emu EXCEPT ![p].ip = fnc, ![p].regs[RDI] = Reg(0, 1)]
    /\ arch' = [arch EXCEPT ![p] = GuestState(emu'[p])]
    /\ where' = [where EXCEPT ![p] = "loop"]
    /\ UNCHANGED <<alive, hreg, fi, forktype, v, prepare_log, parent_log,
                   child_log, at_fork, x3, ppid, host_ret, once, wrap_ip>>

\* EmuRun enters the block of RIP
CallEnter(p) ==
    /\ EnterBlock(p)
    /\ wrap_ip' = [wrap_ip EXCEPT ![p] = -1]
    /\ UNCHANGED <<gstack, host_ret, once>>

\* a translated instruction of the guest function
CallExec(p) ==
    /\ hreg[p].ip \in CodeAddr
    /\ ExecGuest(p)
    /\ UNCHANGED bridgeVars

\* a translated CALL to the guest function at a: the return address is pushed
GuestCall(p, a) ==
    /\ alive[p] /\ where[p] = "block" /\ hreg[p].ip \in CodeAddr
    /\ Len(gstack[p]) < MaxDepth
    /\ gstack' = [gstack EXCEPT ![p] = Append(@, (hreg[p].ip + 1) % CodeLen)]
    /\ hreg' = [hreg EXCEPT ![p].ip = a]
    /\ arch' = [arch EXCEPT ![p].ip = a]
    /\ UNCHANGED <<alive, emu, where, fi, forktype, v, prepare_log, parent_log,
                   child_log, at_fork, x3, ppid, host_ret, once, wrap_ip>>

\* a translated RET: RIP is the return address popped from the guest stack, be
\* it an address of the guest's code or the exit bridge
GuestRet(p) ==
    /\ alive[p] /\ where[p] = "block" /\ hreg[p].ip \in CodeAddr
    /\ gstack[p] # <<>>
    /\ LET top == gstack[p][Len(gstack[p])]
       IN /\ hreg' = [hreg EXCEPT ![p].ip = top]
          /\ arch' = [arch EXCEPT ![p].ip = top]
    /\ gstack' = [gstack EXCEPT ![p] = SubSeq(@, 1, Len(@) - 1)]
    /\ UNCHANGED <<alive, emu, where, fi, forktype, v, prepare_log, parent_log,
                   child_log, at_fork, x3, ppid, host_ret, once, wrap_ip>>

\* the call site of a bridge: registers stored, wrapper called
CallBridge(p) ==
    /\ BridgeCall(p)
    /\ UNCHANGED bridgeVars

\* a wrapper of a native function: it reads its arguments from emu->regs[],
\* calls the function and stores the result in emu->regs[_AX]
NativeWrapper(p, r) ==
    /\ alive[p] /\ where[p] = "wrapper" /\ emu[p].ip \in CodeAddr
    /\ emu' = [emu EXCEPT ![p].regs[RAX] = Reg(0, r)]
    /\ arch' = [arch EXCEPT ![p].regs[RAX] = Reg(0, r)]
    /\ wrap_ip' = [wrap_ip EXCEPT ![p] = emu[p].ip]
    /\ where' = [where EXCEPT ![p] = "bridge_ret"]
    /\ UNCHANGED <<alive, hreg, fi, forktype, v, prepare_log, parent_log,
                   child_log, at_fork, x3, ppid, gstack, host_ret, once>>

\* my_longjmp restores the CPU state from the jmp_buf: RIP is the address a
\* of the setjmp, whose return value is in regs[_AX]
my_longjmp(p, a) ==
    /\ alive[p] /\ where[p] = "wrapper" /\ emu[p].ip \in CodeAddr
    /\ emu' = [emu EXCEPT ![p].ip = a, ![p].regs[RAX] = Reg(0, 1)]
    /\ arch' = [arch EXCEPT ![p].ip = a, ![p].regs[RAX] = Reg(0, 1)]
    /\ wrap_ip' = [wrap_ip EXCEPT ![p] = a]
    /\ where' = [where EXCEPT ![p] = "bridge_ret"]
    /\ UNCHANGED <<alive, hreg, fi, forktype, v, prepare_log, parent_log,
                   child_log, at_fork, x3, ppid, gstack, host_ret, once>>

\* the guest function has returned to the exit bridge: quit = 1
CallExit(p) ==
    /\ emu[p].ip = exit_bridge
    /\ ExitBridge(p)
    /\ wrap_ip' = [wrap_ip EXCEPT ![p] = emu[p].ip]
    /\ UNCHANGED <<gstack, host_ret, once>>

\* after the wrapper: registers reloaded, RIP compared with x3
CallBridgeReturn(p) ==
    /\ BridgeReturn(p)
    /\ UNCHANGED bridgeVars

\* the block ends, or the bridge leaves it: epilog, back in EmuRun
CallEpilog(p) ==
    /\ Epilog(p)
    /\ wrap_ip' = [wrap_ip EXCEPT ![p] = IF where[p] = "epilog" THEN @ ELSE -1]
    /\ UNCHANGED <<gstack, host_ret, once>>

\* arm64_epilog run, and run once more with the registers as the first run
\* left them; the second run takes its stack pointer from a restored x28, after
\* which nothing is known of the thread
EpilogTwice(p) ==
    /\ alive[p] /\ where[p] \in {"block", "epilog"}
    /\ LET first == arm64_epilog(emu[p], hreg[p])
           second == arm64_epilog(first.emu, first.hreg)
       IN /\ once' = [once EXCEPT ![p] = first.emu]
          /\ emu' = [emu EXCEPT ![p] = second.emu]
          /\ hreg' = [hreg EXCEPT ![p] = second.hreg]
    /\ where' = [where EXCEPT ![p] = "epilog2"]
    /\ UNCHANGED <<alive, arch, fi, forktype, v, prepare_log, parent_log,
                   child_log, at_fork, x3, ppid, gstack, host_ret, wrap_ip>>

\* EmuRun after the epilog: if(emu->fork) ..., here without fork request
CallForkCheck(p) ==
    /\ ForkCheck(p)
    /\ UNCHANGED bridgeVars

\* a fault inside the block: the signal handler takes the guest registers from
\* the interrupted host context, the guest PC through the faulting host PC
Trap(p) ==
    /\ alive[p] /\ where[p] = "block"
    /\ emu' = [emu EXCEPT ![p].regs = hreg[p].regs,
                          ![p].eflags = hreg[p].eflags,
                          ![p].ip = hreg[p].ip]
    /\ where' = [where EXCEPT ![p] = "trap"]
    /\ UNCHANGED <<alive, hreg, arch, fi, forktype, v, prepare_log, parent_log,
                   child_log, at_fork, x3, ppid, bridgeVars>>

\* the handler returns into the interrupted block
TrapReturn(p) ==
    /\ alive[p] /\ where[p] = "trap"
    /\ where' = [where EXCEPT ![p] = "block"]
    /\ UNCHANGED <<alive, emu, hreg, arch, fi, forktype, v, prepare_log,
                   parent_log, child_log, at_fork, x3, ppid, bridgeVars>>

\* while(!emu->quit) fails: DynaRun returns to pthread_routine
CallLoopExit(p) ==
    /\ LoopExit(p)
    /\ UNCHANGED bridgeVars

\* pthread_routine: void* ret = (void*)R_RAX; return ret;
HostReturn(p) ==
    /\ alive[p] /\ where[p] = "returned"
    /\ host_ret' = [host_ret EXCEPT ![p] = emu[p].regs[RAX]]
    /\ where' = [where EXCEPT ![p] = "done"]
    /\ UNCHANGED <<alive, emu, hreg, arch, fi, forktype, v, prepare_log,
                   parent_log, child_log, at_fork, x3, ppid, gstack, once,
                   wrap_ip>>

\* ---------------------------------------------------------------------------
\* flags of the guest inside a translated block: deferred, native, eliminated
\* ---------------------------------------------------------------------------

FlagIdx == 1 .. FlagLen

\* the guest instructions told apart: one that defines the flags (XOR, ADD), one
\* that neither defines nor reads them (MOV, LEA, POP), a conditional jump
FlagKinds == {"alu", "mov", "jcc"}

\* the index of the first flag-defining instruction after i, FlagLen + 1 if
\* there is none before the end of the block
NextDef(i) ==
    IF \E j \in FlagIdx : j > i /\ fcode[j] = "alu"
    THEN CHOOSE j \in FlagIdx :
            /\ j > i /\ fcode[j] = "alu"
            /\ \A k \in FlagIdx : (k > i /\ fcode[k] = "alu") => j <= k
    ELSE FlagLen + 1

\* updateNeed: the instructions that read the flags instruction i sets, before
\* they are overwritten
Readers(i) == {j \in FlagIdx : i < j /\ j < NextDef(i) /\ fcode[j] = "jcc"}

\* the flags instruction i sets are those the block ends with
LiveAtExit(i) == NextDef(i) = FlagLen + 1

\* IFNATIVE: the next consumer is a conditional jump with nothing in between;
\* the host's condition flags are used
Native(i) == i + 1 \in FlagIdx /\ fcode[i + 1] = "jcc"

\* a translation that defers the flags only for a reader inside the block
PendIfRead(i) == \E j \in Readers(i) : j # i + 1

\* IFX(X_PEND): the flags are needed later, operation and result are stored
Pend(i) == LiveAtExit(i) \/ \E j \in Readers(i) : j # i + 1

\* set_flags of instruction i is not empty
Needed(i) == Native(i) \/ Pend(i)

NoRead == [used |-> 0, arch |-> 0]

FlagsIdle ==
    /\ fcode = [i \in FlagIdx |-> "mov"]
    /\ fpc = 1
    /\ fpos = "none"
    /\ xflags = 0
    /\ df = -1
    /\ nzcv = -1
    /\ arch_fl = 0
    /\ last_read = NoRead

\* the prolog has loaded the flags word; the block is any sequence of FlagLen
\* instructions
InitFlagVars ==
    /\ fcode \in [FlagIdx -> FlagKinds]
    /\ fpc = 1
    /\ fpos = "run"
    /\ xflags = 0
    /\ df = -1
    /\ nzcv = -1
    /\ arch_fl = 0
    /\ last_read = NoRead

\* a flag-defining instruction: nothing of the flags is computed; if they are
\* needed later the operation is stored in the scratch, if the next instruction
\* is the jump that reads them the host's flag-setting instruction is used
FlagDefine ==
    /\ fpos = "run" /\ fpc \in FlagIdx /\ fcode[fpc] = "alu"
    /\ arch_fl' = fpc
    /\ df' = IF Pend(fpc) THEN fpc ELSE df
    /\ nzcv' = IF Native(fpc) THEN fpc ELSE nzcv
    /\ fpc' = fpc + 1
    /\ UNCHANGED <<fcode, fpos, xflags, last_read>>

\* an instruction without flags
FlagNone ==
    /\ fpos = "run" /\ fpc \in FlagIdx /\ fcode[fpc] = "mov"
    /\ fpc' = fpc + 1
    /\ UNCHANGED <<fcode, fpos, xflags, df, nzcv, arch_fl, last_read>>

\* a conditional jump: it uses the host's condition flags when its producer
\* set them, else CHECK_FLAGS computes pending flags into the flags word
FlagConsume ==
    /\ fpos = "run" /\ fpc \in FlagIdx /\ fcode[fpc] = "jcc"
    /\ IF fpc > 1 /\ fcode[fpc - 1] = "alu"
       THEN /\ last_read' = [used |-> nzcv, arch |-> arch_fl]
            /\ UNCHANGED <<xflags, df>>
       ELSE /\ xflags' = IF df # -1 THEN df ELSE xflags
            /\ df' = -1
            /\ last_read' = [used |-> xflags', arch |-> arch_fl]
    /\ fpc' = fpc + 1
    /\ UNCHANGED <<fcode, fpos, nzcv, arch_fl>>

\* a fault inside the block: the signal handler looks at the guest's state
FlagSignal ==
    /\ fpos = "run"
    /\ fpos' = "signal"
    /\ UNCHANGED <<fcode, fpc, xflags, df, nzcv, arch_fl, last_read>>

\* the handler returns into the block
FlagSigReturn ==
    /\ fpos = "signal"
    /\ fpos' = "run"
    /\ UNCHANGED <<fcode, fpc, xflags, df, nzcv, arch_fl, last_read>>

\* the block ends in the epilog, which stores the flags word
FlagEpilog ==
    /\ fpos = "run" /\ fpc = FlagLen + 1
    /\ fpos' = "epilog"
    /\ UNCHANGED <<fcode, fpc, xflags, df, nzcv, arch_fl, last_read>>

\* the block ends with the call of a wrapper, which stores the flags word
FlagBridge ==
    /\ fpos = "run" /\ fpc = FlagLen + 1
    /\ fpos' = "bridge"
    /\ UNCHANGED <<fcode, fpc, xflags, df, nzcv, arch_fl, last_read>>

\* ---------------------------------------------------------------------------
\* thread cancellation and the stack of cleanup records (test14)
\* ---------------------------------------------------------------------------

\* the cleanup records (x64_unwind_buff_t) the guest registers, in this order
Rec == 1 .. MaxRec

\* indices the cancels array can have
CancelIdx == 0 .. (MaxRec + CancelGrow - 1)

\* et->cancels == NULL, and the content of slots never written
NoCancels == [i \in CancelIdx |-> 0]

\* a reallocation that does not keep the old content
box_malloc(arr, cap) == NoCancels

\* box_realloc(et->cancels, sizeof(void*)*cap): the old content is kept
box_realloc(arr, cap) == [i \in CancelIdx |-> IF i < cap THEN arr[i] ELSE 0]

\* emuthread_cancel starting below the top of the stack
CancelBelowTop(size) == size - 2

\* emuthread_cancel: int i=et->cancel_size-1
CancelTop(size) == size - 1

NoPop == [got |-> 0, want |-> 0]

CancelIdle ==
    /\ cancels = NoCancels
    /\ cancel_size = 0
    /\ cancel_cap = 0
    /\ quit = 0
    /\ quitonlongjmp = 0
    /\ tpos = "none"
    /\ ci = 0
    /\ nextrec = 1
    /\ pushed = <<>>
    /\ last_pop = NoPop
    /\ cleanup_log = <<>>
    /\ thread_state = 0
    /\ cancel_req = FALSE
    /\ at_cancel = -1
    /\ retval = "none"
    /\ joined = "none"

\* pthread_routine: the thread enters DynaRun(emu) with an empty cleanup stack;
\* the guest thread function sets thread_state = 1
InitCancelVars ==
    /\ cancels = NoCancels
    /\ cancel_size = 0
    /\ cancel_cap = 0
    /\ quit = 0
    /\ quitonlongjmp = 0
    /\ tpos = "run"
    /\ ci = 0
    /\ nextrec = 1
    /\ pushed = <<>>
    /\ last_pop = NoPop
    /\ cleanup_log = <<>>
    /\ thread_state = 1
    /\ cancel_req = FALSE
    /\ at_cancel = -1
    /\ retval = "none"
    /\ joined = "none"

\* pthread_cleanup_push in the guest: my___pthread_register_cancel(emu, buff)
my___pthread_register_cancel ==
    /\ tpos = "run" /\ nextrec <= MaxRec
    /\ LET cap == IF cancel_cap = cancel_size THEN cancel_cap + CancelGrow
                                              ELSE cancel_cap
           arr == IF cancel_cap = cancel_size THEN box_realloc(cancels, cap)
                                              ELSE cancels
       IN /\ cancel_cap' = cap
          /\ cancels' = [arr EXCEPT ![cancel_size] = nextrec]
    /\ cancel_size' = cancel_size + 1
    /\ pushed' = Append(pushed, nextrec)
    /\ nextrec' = nextrec + 1
    /\ UNCHANGED <<quit, quitonlongjmp, tpos, ci, last_pop, cleanup_log,
                   thread_state, cancel_req, at_cancel, retval, joined>>

\* pthread_cleanup_pop(0) in the guest: pop removes the record at the top
my___pthread_unregister_cancel ==
    /\ tpos = "run" /\ cancel_size > 0
    /\ cancel_size' = cancel_size - 1
    /\ last_pop' = [got |-> cancels[cancel_size - 1], want |-> pushed[Len(pushed)]]
    /\ pushed' = SubSeq(pushed, 1, Len(pushed) - 1)
    /\ UNCHANGED <<cancels, cancel_cap, quit, quitonlongjmp, tpos, ci, nextrec,
                   cleanup_log, thread_state, cancel_req, at_cancel, retval,
                   joined>>

\* thread_f(): the guest blocks in sleep()
ThreadSleep ==
    /\ tpos = "run"
    /\ tpos' = "blocked"
    /\ UNCHANGED <<cancels, cancel_size, cancel_cap, quit, quitonlongjmp, ci,
                   nextrec, pushed, last_pop, cleanup_log, thread_state,
                   cancel_req, at_cancel, retval, joined>>

\* sleep() returns without a cancellation having been requested
ThreadWake ==
    /\ tpos = "blocked" /\ ~cancel_req
    /\ tpos' = "run"
    /\ UNCHANGED <<cancels, cancel_size, cancel_cap, quit, quitonlongjmp, ci,
                   nextrec, pushed, last_pop, cleanup_log, thread_state,
                   cancel_req, at_cancel, retval, joined>>

\* main: pthread_cancel(thread)
pthread_cancel ==
    /\ ~cancel_req /\ joined = "none"
    /\ cancel_req' = TRUE
    /\ UNCHANGED <<cancels, cancel_size, cancel_cap, quit, quitonlongjmp, tpos,
                   ci, nextrec, pushed, last_pop, cleanup_log, thread_state,
                   at_cancel, retval, joined>>

\* the cancellation is delivered to the thread blocked in sleep(): the native
\* pthread library calls emuthread_cancel(p), whose loop starts at the top
CancelDeliver ==
    /\ tpos = "blocked" /\ cancel_req
    /\ tpos' = "cancel"
    /\ ci' = CancelTop(cancel_size)
    /\ at_cancel' = cancel_size
    /\ UNCHANGED <<cancels, cancel_size, cancel_cap, quit, quitonlongjmp, nextrec,
                   pushed, last_pop, cleanup_log, thread_state, cancel_req,
                   retval, joined>>

\* emuthread_cancel, loop head.  i >= 0: quitonlongjmp = 0; quit = 0;
\* my_longjmp to the record cancels[i]; DynaRun(et->emu).  Otherwise:
\* box_free(et->cancels); cancels = NULL; cancel_size = cancel_cap = 0, and the
\* cancelled thread ends with the status PTHREAD_CANCELED.
emuthread_cancel ==
    /\ tpos = "cancel"
    /\ IF ci >= 0
       THEN /\ quitonlongjmp' = 0
            /\ quit' = 0
            /\ tpos' = "cleanup"
            /\ UNCHANGED <<cancels, cancel_size, cancel_cap, pushed, retval>>
       ELSE /\ cancels' = NoCancels
            /\ cancel_size' = 0
            /\ cancel_cap' = 0
            /\ pushed' = <<>>
            /\ tpos' = "exited"
            /\ retval' = "canceled"
            /\ UNCHANGED <<quit, quitonlongjmp>>
    /\ UNCHANGED <<ci, nextrec, last_pop, cleanup_log, thread_state, cancel_req,
                   at_cancel, joined>>

\* DynaRun resumed at the cleanup point of record cancels[i]: the guest's
\* cleanup handler runs (thread_cleanup sets thread_state = 2)
thread_cleanup ==
    /\ tpos = "cleanup" /\ quit = 0
    /\ cleanup_log' = Append(cleanup_log, cancels[ci])
    /\ thread_state' = 2
    /\ tpos' = "unwind"
    /\ UNCHANGED <<cancels, cancel_size, cancel_cap, quit, quitonlongjmp, ci,
                   nextrec, pushed, last_pop, cancel_req, at_cancel, retval,
                   joined>>

\* a __pthread_unwind_next that leaves emu->quit as it is
unwind_next_keeps_quit ==
    /\ tpos = "unwind"
    /\ tpos' = "dynarun"
    /\ UNCHANGED <<cancels, cancel_size, cancel_cap, quit, quitonlongjmp, ci,
                   nextrec, pushed, last_pop, cleanup_log, thread_state,
                   cancel_req, at_cancel, retval, joined>>

\* the cleanup code ends with __pthread_unwind_next: emu->quit = 1
my___pthread_unwind_next ==
    /\ tpos = "unwind"
    /\ quit' = 1
    /\ tpos' = "dynarun"
    /\ UNCHANGED <<cancels, cancel_size, cancel_cap, quitonlongjmp, ci, nextrec,
                   pushed, last_pop, cleanup_log, thread_state, cancel_req,
                   at_cancel, retval, joined>>

\* DynaRun sees quit and returns to the loop of emuthread_cancel: --i
DynaRunReturn ==
    /\ tpos = "dynarun" /\ quit # 0
    /\ tpos' = "cancel"
    /\ ci' = ci - 1
    /\ UNCHANGED <<cancels, cancel_size, cancel_cap, quit, quitonlongjmp, nextrec,
                   pushed, last_pop, cleanup_log, thread_state, cancel_req,
                   at_cancel, retval, joined>>

\* the thread function returns: the exit bridge sets quit = 1, DynaRun returns,
\* pthread_routine returns R_RAX
ThreadReturn ==
    /\ tpos = "run"
    /\ quit' = 1
    /\ tpos' = "exited"
    /\ retval' = "returned"
    /\ UNCHANGED <<cancels, cancel_size, cancel_cap, quitonlongjmp, ci, nextrec,
                   pushed, last_pop, cleanup_log, thread_state, cancel_req,
                   at_cancel, joined>>

\* main: pthread_join(thread, &status) returns once the thread has ended
pthread_join ==
    /\ tpos = "exited" /\ joined = "none"
    /\ joined' = retval
    /\ UNCHANGED <<cancels, cancel_size, cancel_cap, quit, quitonlongjmp, tpos, ci,
                   nextrec, pushed, last_pop, cleanup_log, thread_state,
                   cancel_req, at_cancel, retval>>

\* ---------------------------------------------------------------------------
\* Locks across fork.  The host fork copies every mutex in the state it has;
\* the threads that hold them do not exist in the child.  The child-side
\* handlers atfork_child_box64context and atfork_child_custommem run inside
\* fork() in the child and re-initialise the mutexes.
\* ---------------------------------------------------------------------------

\* the mutexes of box64context_t
CtxLocks == {"mutex_thread", "mutex_tls"}

\* the mutexes of custommem.c: the executable-memory allocator's and the
\* block cache's
MemLocks == {"mutex_blocks", "mutex_dyn"}

\* the two processes of the scenario
LockProc == {"parent", "child"}

Locks == CtxLocks \cup MemLocks

Unlocked == [l \in Locks |-> NoThread]

\* a child handler of the context that leaves the mutexes as fork() copied them
KeepCtxLocks(own) == own

\* atfork_child_box64context: re-initialises the mutexes of the context
atfork_child_box64context(own) ==
    [l \in Locks |-> IF l \in CtxLocks THEN NoThread ELSE own[l]]

\* atfork_child_custommem: re-initialises the mutexes of custommem.c
custommem_child_mutexes(own) ==
    [l \in Locks |-> IF l \in MemLocks THEN NoThread ELSE own[l]]

\* the threads of a process: a child has the forking thread only
ThreadsOf(p) ==
    IF lstate[p] = "parent" THEN Thread
    ELSE IF lstate[p] = "child" THEN {MainThread} ELSE {}

LocksIdle ==
    /\ lstate = [p \in LockProc |-> "none"]
    /\ lock_owner = [p \in LockProc |-> Unlocked]
    /\ held_at_fork = [p \in LockProc |-> {}]

\* process 0 with its main thread and its workers, no lock held
InitLockVars ==
    /\ lstate = [p \in LockProc |-> IF p = "parent" THEN "parent" ELSE "none"]
    /\ lock_owner = [p \in LockProc |-> Unlocked]
    /\ held_at_fork = [p \in LockProc |-> {}]

\* pthread_mutex_lock(l) by thread t of p returns: the mutex was unlocked
MutexLock(p, t, l) ==
    /\ t \in ThreadsOf(p)
    /\ lock_owner[p][l] = NoThread
    /\ lock_owner' = [lock_owner EXCEPT ![p][l] = t]
    /\ UNCHANGED <<lstate, held_at_fork>>

\* pthread_mutex_unlock(l) by the thread that holds it
MutexUnlock(p, t, l) ==
    /\ t \in ThreadsOf(p)
    /\ lock_owner[p][l] = t
    /\ lock_owner' = [lock_owner EXCEPT ![p][l] = NoThread]
    /\ UNCHANGED <<lstate, held_at_fork>>

\* v = fork() in x64emu_fork, called by the main thread of p from EmuRun (it
\* holds no mutex there): the child c is a copy with the main thread only, and
\* before fork() returns in it the child handlers have run
LockFork(p, c) ==
    /\ lstate[p] # "none" /\ lstate[c] = "none"
    /\ \A l \in Locks : lock_owner[p][l] # MainThread
    /\ lstate' = [lstate EXCEPT ![c] = "child"]
    /\ held_at_fork' = [held_at_fork EXCEPT ![c] =
                           {l \in Locks : lock_owner[p][l] # NoThread}]
    /\ lock_owner' = [lock_owner EXCEPT ![c] =
                         custommem_child_mutexes(atfork_child_box64context(lock_owner[p]))]

\* ---------------------------------------------------------------------------
\* Thread-local storage.  context->tlsdata holds the initial values of the
\* __thread variables; every thread gets a block of its own, initialised from
\* it, and reaches its variables through emu->segs_offs[_FS].
\* ---------------------------------------------------------------------------

\* the initialisers of test11
TLS_data1 == 10

TLS_data2 == 20

\* context->tlsdata, of context->tlssize values
context_tlsdata == <<TLS_data1, TLS_data2>>

context_tlssize == Len(context_tlsdata)

TlsOffset == 1 .. context_tlssize

\* the values gData->data1 and gData->data2 that the threads assign
TlsVals == {0, 1}

\* a block that starts zeroed instead of copied from context->tlsdata
setupTLSDataZero(tm) == Append(tm, [i \in TlsOffset |-> 0])

\* setupTLSData: a new block, memcpy'ed from context->tlsdata
setupTLSData(tm) == Append(tm, context_tlsdata)

\* what thread t reads at %fs:off
FsRead(t, off) == tls_mem[segs_offs[t]][off]

TlsIdle ==
    /\ tls_mem = <<>>
    /\ emu_tlsdata = [t \in Thread |-> 0]
    /\ segs_offs = [t \in Thread |-> 0]
    /\ tls_own = [t \in Thread |-> context_tlsdata]

\* the main thread runs with its block, the other threads are not started
InitTlsVars ==
    /\ tls_mem = setupTLSData(<<>>)
    /\ emu_tlsdata = [t \in Thread |-> IF t = MainThread THEN 1 ELSE 0]
    /\ segs_offs = [t \in Thread |-> IF t = MainThread THEN 1 ELSE 0]
    /\ tls_own = [t \in Thread |-> context_tlsdata]

\* refreshTLSData(emu) of thread t, called by pthread_routine when t starts;
\* no library is loaded meanwhile, so tlssize is that of the block
refreshTLSData(t) ==
    LET ptr == IF emu_tlsdata[t] = 0 THEN Len(tls_mem) + 1 ELSE emu_tlsdata[t]
    IN  /\ tls_mem' = IF emu_tlsdata[t] = 0 THEN setupTLSData(tls_mem) ELSE tls_mem
        /\ emu_tlsdata' = [emu_tlsdata EXCEPT ![t] = ptr]
        /\ segs_offs' = [segs_offs EXCEPT ![t] = ptr]
        /\ UNCHANGED tls_own

\* mov %eax, %fs:off executed by thread t
TlsWrite(t, off, val) ==
    /\ segs_offs[t] # 0
    /\ tls_mem' = [tls_mem EXCEPT ![segs_offs[t]][off] = val]
    /\ tls_own' = [tls_own EXCEPT ![t][off] = val]
    /\ UNCHANGED <<emu_tlsdata, segs_offs>>

\* ---------------------------------------------------------------------------
\* mmaplist_t and its chunks pointer array (test 003).  The global mmaplist
\* and each mapping's mmaplist hold a chunks array that MmaplistAddBlock
\* grows with box_realloc.
\* ---------------------------------------------------------------------------

\* no mmaplist_t
NoList == [alive |-> FALSE, chunks |-> FALSE, size |-> 0]

\* a new mmaplist_t: chunks is NULL
NewList == [alive |-> TRUE, chunks |-> FALSE, size |-> 0]

\* the mmaplist_t that have a chunks array
ListsWithChunks == {w \in {"global", "mapping"} :
                      (IF w = "global" THEN mmaplist ELSE mapping).chunks}

MmIdle ==
    /\ mmaplist = NoList
    /\ mapping = NoList
    /\ chunks_heap = 0
    /\ ncycles = 0

\* start of main: the global list exists, no library is loaded
InitMmVars ==
    /\ mmaplist = NewList
    /\ mapping = NoList
    /\ chunks_heap = 0
    /\ ncycles = 0

\* MmaplistAddBlock on a list: box_realloc of chunks, a new array when chunks
\* was NULL
MmaplistAddBlock(list) ==
    [list EXCEPT !.chunks = TRUE, !.size = list.size + 1]

\* a hot loop of main is translated: a block in the global mmaplist
HotLoop ==
    /\ mmaplist.alive /\ mmaplist.size < MaxChunks
    /\ mmaplist' = MmaplistAddBlock(mmaplist)
    /\ chunks_heap' = IF mmaplist.chunks THEN chunks_heap ELSE chunks_heap + 1
    /\ UNCHANGED <<mapping, ncycles>>

\* dlopen(lib_path): a mapping with its own mmaplist_t
Dlopen ==
    /\ mmaplist.alive /\ ~mapping.alive /\ ncycles < MaxCycles
    /\ mapping' = NewList
    /\ UNCHANGED <<mmaplist, chunks_heap, ncycles>>

\* fn1(2000) / fn2(2000): a block in the mapping's mmaplist
HotCompute ==
    /\ mapping.alive /\ mapping.size < MaxChunks
    /\ mapping' = MmaplistAddBlock(mapping)
    /\ chunks_heap' = IF mapping.chunks THEN chunks_heap ELSE chunks_heap + 1
    /\ UNCHANGED <<mmaplist, ncycles>>

\* dlclose(handle): RemoveMapping -> DelMmaplist: box_free(list) frees the
\* struct, list->chunks is not freed
DelMmaplist ==
    /\ mapping.alive
    /\ mapping' = NoList
    /\ ncycles' = ncycles + 1
    /\ UNCHANGED <<mmaplist, chunks_heap>>

\* exit: fini_custommem_helper: free(head) frees the struct, head->chunks is
\* not freed
fini_custommem_helper ==
    /\ mmaplist.alive /\ ~mapping.alive
    /\ mmaplist' = NoList
    /\ UNCHANGED <<mapping, chunks_heap, ncycles>>

\* ---------------------------------------------------------------------------
\* Interpreter, opcode 0F 00 (SLDT /0, STR /1, VERR /4, VERW /5), the code of
\* case 0x00 in x64run0f.c:
\*     if(rex.is32bits) { nextop = F8; switch((nextop>>3)&7) {...} } else
\*         nextop = F8;
\*         switch((nextop>>3)&7) { case 0: ...; break; default: return 0; }
\* ---------------------------------------------------------------------------

\* (nextop>>3)&7
ModRmReg(b) == (b \div 8) % 8

\* the forms of the instruction that test 002 runs: /0, /1, /4, /5
Op0f00Forms == {0, 1, 4, 5}

\* the ModRM bytes of these forms
Op0f00Bytes == {b \in 0 .. 255 : ModRmReg(b) \in Op0f00Forms}

\* ---------------------------------------------------------------------------
\* arm64_prolog and arm64_epilog on the host registers and the host stack
\* ---------------------------------------------------------------------------

\* sub sp, sp, (8 * 18): the slots of the save area
SaveSlots == 18

\* add x28, sp, 16: the offset of xSavedSP from sp, in slots
SavedSPOff == 2

\* the d registers, numbered after the x registers
D(n) == 100 + n

\* the host registers the prolog and the epilog touch
HReg == (10 .. 30) \cup {D(n) : n \in 8 .. 15}

\* the registers kept in the save area: x19..x28 in slots 0..9, d8..d15 in
\* slots 10..17 (stp x19, x20, [sp, (8 * 0)] ... stp d14, d15, [sp, (8 *16)])
SavedReg(k) == IF k < 10 THEN 19 + k ELSE D(8 + (k - 10))

HostCalleeSaved == {SavedReg(k) : k \in 0 .. (SaveSlots - 1)}

\* the value a host register holds in EmuRun, one per register
HostVal(r) == 1000 + r

\* the stack the model keeps: the frame of the prolog below the stack pointer
\* at the call, and two slots of the caller's frame above it
StackSlots == (0 - (SaveSlots + 2)) .. 1

\* the architectural state of a x64emu_t with plain integers in its registers
PlGuest(x, y, f, a) ==
    [regs |-> [r \in Gpr |-> IF r = RAX THEN x ELSE IF r = R9 THEN y ELSE 0],
     eflags |-> f, ip |-> a]

PrologIdle ==
    /\ hx = [r \in HReg |-> 0]
    /\ hsp = 0
    /\ hstack = [k \in StackSlots |-> 0]
    /\ pl_emu = PlGuest(0, 0, 0, 0)
    /\ pl_emu0 = PlGuest(0, 0, 0, 0)
    /\ pl_pos = "none"

\* EmuRun is about to call native_prolog(emu, block): the host registers hold
\* EmuRun's values, the caller's frame holds any values, the x64emu_t any
\* guest state
InitPlVars ==
    /\ hx = [r \in HReg |-> HostVal(r)]
    /\ hsp = 0
    /\ \E c \in {2000, 3000} :
          hstack = [k \in StackSlots |-> IF k >= 0 THEN c + k ELSE 0]
    /\ \E x \in 0 .. MaxByte, y \in 0 .. MaxByte, f \in 0 .. 1, a \in CodeAddr :
          /\ pl_emu = PlGuest(x, y, f, a)
          /\ pl_emu0 = PlGuest(x, y, f, a)
    /\ pl_pos = "caller"

\* arm64_prolog:  stp x30, x29, [sp, -16]!;  sub sp, sp, (8 * 18);
\* stp x19, x20, [sp, (8 * 0)] ... stp d14, d15, [sp, (8 *16)];
\* ldp x10, x11, [x0, (8 * 0)] ... ldp x26, x27, [x0, (8 * 16)];
\* add x28, sp, 16;  br x1
arm64_prolog ==
    LET sp1 == hsp - 2
        sp2 == sp1 - SaveSlots
    IN /\ pl_pos = "caller"
       /\ hstack' = [k \in StackSlots |->
                        IF k = sp1 THEN hx[30]
                        ELSE IF k = sp1 + 1 THEN hx[29]
                        ELSE IF k \in sp2 .. (sp2 + SaveSlots - 1)
                             THEN hx[SavedReg(k - sp2)]
                        ELSE hstack[k]]
       /\ hx' = [r \in HReg |->
                    IF r \in 10 .. 25 THEN pl_emu.regs[r - 10]
                    ELSE IF r = 26 THEN pl_emu.eflags
                    ELSE IF r = 27 THEN pl_emu.ip
                    ELSE IF r = 28 THEN sp2 + SavedSPOff
                    ELSE hx[r]]
       /\ hsp' = sp2
       /\ pl_pos' = "block"
       /\ UNCHANGED <<pl_emu, pl_emu0>>

\* arm64_epilog:  stp x10, x11, [x0, (8 * 0)] ... stp x26, x27, [x0, (8 * 16)];
\* add sp, x28, 0;  ldp x19, x20, [sp, (8 * 0)] ... (the loads that mirror
\* the prolog's stores, and the add that mirrors its sub);
\* ldp x30, x29, [sp], 16;  ret
arm64_epilog_host ==
    LET sp1 == hx[28]
        sp2 == sp1 + SaveSlots
    IN /\ pl_pos = "block"
       /\ pl_emu' = [regs |-> [i \in Gpr |-> hx[10 + i]],
                     eflags |-> hx[26], ip |-> hx[27]]
       /\ hx' = [r \in HReg |->
                    IF r \in HostCalleeSaved
                    THEN hstack[sp1 + (CHOOSE k \in 0 .. (SaveSlots - 1) :
                                          SavedReg(k) = r)]
                    ELSE IF r = 30 THEN hstack[sp2]
                    ELSE IF r = 29 THEN hstack[sp2 + 1]
                    ELSE hx[r]]
       /\ hsp' = sp2 + 2
       /\ pl_pos' = "returned"
       /\ UNCHANGED <<hstack, pl_emu0>>

\* no thread is being created
LifeIdle ==
    /\ et = "none"
    /\ et_emu = "none"
    /\ thread_key = FALSE
    /\ ndestroy = 0

OpIdle ==
    /\ is32bits = FALSE
    /\ nextop = -1
    /\ op_pos = "idle"
    /\ op_count = 0
    /\ op_stored = <<>>

\* the interpreter has read 0F 00 and enters case 0x00
OpAtCase ==
    /\ is32bits \in BOOLEAN
    /\ nextop = -1
    /\ op_pos = "case"
    /\ op_count = 0
    /\ op_stored = <<>>

\* nextop = F8, in the branch taken: the next byte of the instruction is b
OpFetch(b) ==
    /\ op_pos = "case"
    /\ nextop' = b
    /\ op_pos' = IF is32bits THEN "switch32" ELSE "switch"
    /\ UNCHANGED <<is32bits, op_count, op_stored>>

\* the switch of the 32-bit branch: it handles SLDT, STR, VERR and VERW; the
\* else that follows the branch has no braces, so the second switch comes next
OpSwitch32 ==
    /\ op_pos = "switch32"
    /\ op_count' = op_count + 1
    /\ op_stored' = IF ModRmReg(nextop) = 0 THEN Append(op_stored, "ldtr")
                     ELSE IF ModRmReg(nextop) = 1 THEN Append(op_stored, "tr")
                     ELSE op_stored
    /\ op_pos' = "switch"
    /\ UNCHANGED <<is32bits, nextop>>

\* the second switch: case 0 is SLDT Ew and stores 0, any other form returns 0
OpSwitch ==
    /\ op_pos = "switch"
    /\ IF ModRmReg(nextop) = 0
       THEN /\ op_count' = op_count + 1
            /\ op_stored' = Append(op_stored, "ldtr")
            /\ op_pos' = "break"
       ELSE /\ op_pos' = "return 0"
            /\ UNCHANGED <<op_count, op_stored>>
    /\ UNCHANGED <<is32bits, nextop>>

\* the instruction is over: the case ended with break, or returned 0
OpOver == op_pos \in {"break", "return 0"}

\* ---------------------------------------------------------------------------
\* specifications
\* ---------------------------------------------------------------------------

NextAtfork ==
    \E t \in RegThread :
        \/ RegCheck(t) /\ UNCHANGED notAtfork
        \/ RegGrow(t) /\ UNCHANGED notAtfork
        \/ RegRealloc(t) /\ UNCHANGED notAtfork
        \/ RegTake(t) /\ UNCHANGED notAtfork
        \/ RegBump(t) /\ UNCHANGED notAtfork
        \/ RegStore(t) /\ UNCHANGED notAtfork

InitAtfork == InitAtforkVars /\ ProcIdle /\ InUseIdle /\ CacheIdle /\ CancelIdle /\ TransIdle /\ BridgeIdle /\ FlagsIdle /\ RunIdle /\ SnapIdle /\ LocksIdle /\ TlsIdle /\ MmIdle /\ OpIdle /\ LifeIdle /\ PrologIdle

SpecAtfork == InitAtfork /\ [][NextAtfork]_vars

NextFork ==
    \E p \in Proc :
        \/ EnterBlock(p) /\ UNCHANGED notProc
        \/ LoopExit(p) /\ UNCHANGED notProc
        \/ ExecGuest(p) /\ UNCHANGED notProc
        \/ BridgeCall(p) /\ UNCHANGED notProc
        \/ \E kind \in ForkKinds : my_fork(p, kind) /\ UNCHANGED notProc
        \/ ExitBridge(p) /\ UNCHANGED notProc
        \/ GuestExit(p) /\ UNCHANGED notProc
        \/ GuestExec(p) /\ UNCHANGED notProc
        \/ ExecExit(p) /\ UNCHANGED notProc
        \/ BridgeReturn(p) /\ UNCHANGED notProc
        \/ Epilog(p) /\ UNCHANGED notProc
        \/ ForkCheck(p) /\ UNCHANGED notProc
        \/ ForkPrepare(p) /\ UNCHANGED notProc
        \/ HostFork(p) /\ UNCHANGED notProc
        \/ HostForkFail(p) /\ UNCHANGED notProc
        \/ ForkBranch(p) /\ UNCHANGED notProc
        \/ ForkParent(p) /\ UNCHANGED notProc
        \/ ForkChild(p) /\ UNCHANGED notProc
        \/ ForkOobSkip(p) /\ UNCHANGED notProc
        \/ ForkOobFault(p) /\ UNCHANGED notProc
        \/ ForkWait(p) /\ UNCHANGED notProc
        \/ ForkReturn(p) /\ UNCHANGED notProc
        \/ EmuForkDone(p) /\ UNCHANGED notProc

InitFork ==
    /\ \E T \in 0..MaxHandlers : Registered(T)
    /\ RegIdle
    /\ InitProcVars
    /\ InUseIdle
    /\ CacheIdle
    /\ CancelIdle
    /\ TransIdle
    /\ BridgeIdle
    /\ FlagsIdle
    /\ RunIdle
    /\ SnapIdle
    /\ LocksIdle
    /\ TlsIdle
    /\ MmIdle
    /\ OpIdle /\ LifeIdle /\ PrologIdle

SpecFork == InitFork /\ [][NextFork]_vars

\* the guest of this scenario calls fork again only while no fork of it has
\* succeeded: a process that came out of a host fork goes on without forking
FirstFork(p) == at_fork[p].where = "none"

NextRun ==
    \E p \in Proc :
        \/ EnterBlock(p) /\ UNCHANGED notProc
        \/ LoopExit(p) /\ UNCHANGED notProc
        \/ ExecGuest(p) /\ UNCHANGED notProc
        \/ BridgeCall(p) /\ UNCHANGED notProc
        \/ \E kind \in ForkKinds :
              FirstFork(p) /\ my_fork(p, kind) /\ UNCHANGED notProc
        \/ ExitBridge(p) /\ UNCHANGED notProc
        \/ GuestExit(p) /\ UNCHANGED notProc
        \/ BridgeReturn(p) /\ UNCHANGED notProc
        \/ Epilog(p) /\ UNCHANGED notProc
        \/ ForkCheck(p) /\ UNCHANGED notProc
        \/ \E st \in 0 .. 1 : RunEnter(p, st) /\ UNCHANGED notRun
        \/ RunExec(p) /\ UNCHANGED notRun
        \/ \E kind \in ForkKinds, a \in CodeAddr :
              FirstFork(p) /\ RunFork(p, kind, a) /\ UNCHANGED notRun
        \/ RunExitBridge(p) /\ UNCHANGED notRun
        \/ RunForkCheck(p) /\ UNCHANGED notRun
        \/ RunForkDone(p) /\ UNCHANGED notRun
        \/ ForkPrepare(p) /\ UNCHANGED notProc
        \/ RunHostFork(p) /\ UNCHANGED notRun
        \/ HostForkFail(p) /\ UNCHANGED notProc
        \/ ForkBranch(p) /\ UNCHANGED notProc
        \/ ForkParent(p) /\ UNCHANGED notProc
        \/ ForkChild(p) /\ UNCHANGED notProc
        \/ ForkOobSkip(p) /\ UNCHANGED notProc
        \/ ForkOobFault(p) /\ UNCHANGED notProc
        \/ ForkWait(p) /\ UNCHANGED notProc
        \/ ForkReturn(p) /\ UNCHANGED notProc
        \/ EmuForkDone(p) /\ UNCHANGED notProc

InitRun ==
    /\ \E T \in 0..MaxHandlers : Registered(T)
    /\ RegIdle
    /\ InitProcVars
    /\ InUseIdle
    /\ CacheIdle
    /\ CancelIdle
    /\ TransIdle
    /\ BridgeIdle
    /\ FlagsIdle
    /\ RunIdle
    /\ SnapIdle
    /\ LocksIdle
    /\ TlsIdle
    /\ MmIdle
    /\ OpIdle /\ LifeIdle /\ PrologIdle

SpecRun == InitRun /\ [][NextRun]_vars

NextSnap ==
    \/ \E t \in RegThread : RegCheck(t) /\ UNCHANGED notAtfork
    \/ \E t \in RegThread : RegGrow(t) /\ UNCHANGED notAtfork
    \/ \E t \in RegThread : RegRealloc(t) /\ UNCHANGED notAtfork
    \/ \E t \in RegThread : RegTake(t) /\ UNCHANGED notAtfork
    \/ \E t \in RegThread : RegBump(t) /\ UNCHANGED notAtfork
    \/ \E t \in RegThread : RegStore(t) /\ UNCHANGED notAtfork
    \/ \E p \in Proc : ForkCheck(p) /\ UNCHANGED notProc
    \/ \E p \in Proc : ForkPrepare(p) /\ UNCHANGED notProc
    \/ \E p \in Proc : SnapHostFork(p) /\ UNCHANGED <<atforkVars, notSnap>>
    \/ \E p \in Proc : ForkBranch(p) /\ UNCHANGED notProc
    \/ \E p \in Proc : ForkParent(p) /\ UNCHANGED notProc
    \/ \E p \in Proc : SnapParentOob(p) /\ UNCHANGED notProc
    \/ \E p \in Proc : SnapForkChild(p) /\ UNCHANGED <<atforkVars, snapVars, notSnap>>
    \/ \E p \in Proc : ForkReturn(p) /\ UNCHANGED notProc
    \/ \E p \in Proc : EmuForkDone(p) /\ UNCHANGED notProc

\* one thread is about to make its calls of pthread_atfork while the main
\* thread has left a block with a fork request pending (a child of this
\* scenario never exits, so no waitpid of a vfork parent returns)
InitSnap ==
    /\ AtforkEmpty
    /\ rpc = [t \in RegThread |-> IF t = 0 THEN "check" ELSE "done"]
    /\ ri = [t \in RegThread |-> 0]
    /\ rstale = [t \in RegThread |-> FALSE]
    /\ rdone = [t \in RegThread |-> IF t = 0 THEN 0 ELSE RegPerThread]
    /\ \E kind \in ForkKinds :
          /\ alive = [p \in Proc |-> p = 0]
          /\ emu = [p \in Proc |-> IF p = 0
                                    THEN [NewX64Emu EXCEPT !.quit = 1, !.fork = kind]
                                    ELSE NewX64Emu]
          /\ where = [p \in Proc |-> IF p = 0 THEN "forkcheck" ELSE "none"]
    /\ hreg = [p \in Proc |-> HostRegs]
    /\ arch = [p \in Proc |-> GuestState(NewX64Emu)]
    /\ fi = [p \in Proc |-> 0]
    /\ forktype = [p \in Proc |-> 0]
    /\ v = [p \in Proc |-> 0]
    /\ prepare_log = [p \in Proc |-> <<>>]
    /\ parent_log = [p \in Proc |-> <<>>]
    /\ child_log = [p \in Proc |-> <<>>]
    /\ at_fork = [p \in Proc |-> NoFork]
    /\ x3 = [p \in Proc |-> 0]
    /\ ppid = [p \in Proc |-> -1]
    /\ InUseIdle
    /\ CacheIdle
    /\ CancelIdle
    /\ TransIdle
    /\ BridgeIdle
    /\ FlagsIdle
    /\ RunIdle
    /\ SnapIdle
    /\ LocksIdle
    /\ TlsIdle
    /\ MmIdle
    /\ OpIdle /\ LifeIdle /\ PrologIdle

SpecSnap == InitSnap /\ [][NextSnap]_vars

NextLocks ==
    \/ \E p \in LockProc, t \in Thread, l \in Locks :
          MutexLock(p, t, l) /\ UNCHANGED notLocks
    \/ \E p \in LockProc, t \in Thread, l \in Locks :
          MutexUnlock(p, t, l) /\ UNCHANGED notLocks
    \/ \E p \in LockProc, c \in LockProc : LockFork(p, c) /\ UNCHANGED notLocks

InitLocks ==
    /\ AtforkEmpty
    /\ RegIdle
    /\ ProcIdle
    /\ InUseIdle
    /\ CacheIdle
    /\ CancelIdle
    /\ TransIdle
    /\ BridgeIdle
    /\ FlagsIdle
    /\ RunIdle
    /\ SnapIdle
    /\ InitLockVars
    /\ TlsIdle
    /\ MmIdle
    /\ OpIdle /\ LifeIdle /\ PrologIdle

SpecLocks == InitLocks /\ [][NextLocks]_vars

NextTls ==
    \/ \E t \in Thread :
          segs_offs[t] = 0 /\ refreshTLSData(t) /\ UNCHANGED notTls
    \/ \E t \in Thread, off \in TlsOffset, val \in TlsVals :
          TlsWrite(t, off, val) /\ UNCHANGED notTls

InitTls ==
    /\ AtforkEmpty
    /\ RegIdle
    /\ ProcIdle
    /\ InUseIdle
    /\ CacheIdle
    /\ CancelIdle
    /\ TransIdle
    /\ BridgeIdle
    /\ FlagsIdle
    /\ RunIdle
    /\ SnapIdle
    /\ LocksIdle
    /\ InitTlsVars
    /\ MmIdle
    /\ OpIdle /\ LifeIdle /\ PrologIdle

SpecTls == InitTls /\ [][NextTls]_vars

NextMm ==
    \/ HotLoop /\ UNCHANGED notMm
    \/ Dlopen /\ UNCHANGED notMm
    \/ HotCompute /\ UNCHANGED notMm
    \/ DelMmaplist /\ UNCHANGED notMm
    \/ fini_custommem_helper /\ UNCHANGED notMm

InitMm ==
    /\ AtforkEmpty
    /\ RegIdle
    /\ ProcIdle
    /\ InUseIdle
    /\ CacheIdle
    /\ CancelIdle
    /\ TransIdle
    /\ BridgeIdle
    /\ FlagsIdle
    /\ RunIdle
    /\ SnapIdle
    /\ LocksIdle
    /\ TlsIdle
    /\ InitMmVars
    /\ OpIdle /\ LifeIdle /\ PrologIdle

SpecMm == InitMm /\ [][NextMm]_vars

NextOp ==
    \/ \E b \in Op0f00Bytes : OpFetch(b) /\ UNCHANGED notOp
    \/ OpSwitch32 /\ UNCHANGED notOp
    \/ OpSwitch /\ UNCHANGED notOp

InitOp ==
    /\ AtforkEmpty
    /\ RegIdle
    /\ ProcIdle
    /\ InUseIdle
    /\ CacheIdle
    /\ CancelIdle
    /\ TransIdle
    /\ BridgeIdle
    /\ FlagsIdle
    /\ RunIdle
    /\ SnapIdle
    /\ LocksIdle
    /\ TlsIdle
    /\ MmIdle
    /\ LifeIdle /\ PrologIdle
    /\ OpAtCase

SpecOp == InitOp /\ [][NextOp]_vars

NextInUse ==
    \E p \in IuProc :
        \/ \E t \in Thread : worker_create(p, t) /\ UNCHANGED notInUse
        \/ \E t \in Thread, b \in Block :
              hot_compute_entry(p, t, b) /\ UNCHANGED notInUse
        \/ \E t \in Thread : hot_compute_exit(p, t) /\ UNCHANGED notInUse
        \/ \E t \in Thread : worker_join(p, t) /\ UNCHANGED notInUse
        \/ \E c \in IuProc : fork_in_used(p, c) /\ UNCHANGED notInUse
        \/ child_exit(p) /\ UNCHANGED notInUse
        \/ \E b \in Block : purge_scan(p, b) /\ UNCHANGED notInUse

InitInUse ==
    AtforkEmpty /\ RegIdle /\ ProcIdle /\ InitInUseVars /\ CacheIdle /\ CancelIdle /\ TransIdle /\ BridgeIdle /\ FlagsIdle /\ RunIdle /\ SnapIdle /\ LocksIdle /\ TlsIdle /\ MmIdle /\ OpIdle /\ LifeIdle /\ PrologIdle

SpecInUse == InitInUse /\ [][NextInUse]_vars

\* the threads go on running, and a process under memory pressure goes on
\* scanning: a block that stays purgeable is purged
SpecInUseLive ==
    /\ SpecInUse
    /\ WF_vars(NextInUse)
    /\ \A p \in IuProc, b \in Block :
          WF_vars(purge_scan(p, b) /\ UNCHANGED notInUse)

NextCache ==
    \/ \E t \in CThread : DBGetBlock(t) /\ UNCHANGED notCache
    \/ \E t \in CThread : InterpFallback(t) /\ UNCHANGED notCache
    \/ \E t \in CThread : CacheEnter(t) /\ UNCHANGED notCache
    \/ \E t \in CThread, a \in CAddr : BlockJump(t, a) /\ UNCHANGED notCache
    \/ \E t \in CThread, a \in CAddr, x \in Byte :
          GuestWrite(t, a, x) /\ UNCHANGED notCache
    \/ \E b \in BlockId : PurgeDynarecMap(b) /\ UNCHANGED notCache

InitCache ==
    AtforkEmpty /\ RegIdle /\ ProcIdle /\ InUseIdle /\ InitCacheVars /\ CancelIdle /\ TransIdle /\ BridgeIdle /\ FlagsIdle /\ RunIdle /\ SnapIdle /\ LocksIdle /\ TlsIdle /\ MmIdle /\ OpIdle /\ LifeIdle /\ PrologIdle

SpecCache == InitCache /\ [][NextCache]_vars

\* the case the hash check exists for: the page of address 0 is hot, its
\* protection is removed, and the block of address 0, compiled with always_test
\* when the bytes there were h, is in the page table while the bytes are any
InitHotVars ==
    /\ mem \in [CAddr -> Byte]
    /\ hot = [pg \in Page |-> pg = PageOf(0)]
    /\ protected = [pg \in Page |-> FALSE]
    /\ \E h \in Byte :
          blocks = [b \in BlockId |->
                      IF b = 1
                      THEN [FillBlock64(0) EXCEPT !.code = h,
                                                  !.hash = X31_hash_code(h)]
                      ELSE FreeBlock]
    /\ jmptable = [a \in CAddr |-> IF a = 0 THEN 1 ELSE native_epilog]
    /\ ninval = 0
    /\ cpos = [t \in CThread |-> "loop"]
    /\ cip = [t \in CThread |-> 0]
    /\ cur = [t \in CThread |-> 0]
    /\ ent = [t \in CThread |-> NoEntry]
    /\ smc = NoSmc

InitHot ==
    AtforkEmpty /\ RegIdle /\ ProcIdle /\ InUseIdle /\ InitHotVars /\ CancelIdle /\ TransIdle /\ BridgeIdle /\ FlagsIdle /\ RunIdle /\ SnapIdle /\ LocksIdle /\ TlsIdle /\ MmIdle /\ OpIdle /\ LifeIdle /\ PrologIdle

SpecHot == InitHot /\ [][NextCache]_vars

NextCancel ==
    \/ my___pthread_register_cancel /\ UNCHANGED notCancel
    \/ my___pthread_unregister_cancel /\ UNCHANGED notCancel
    \/ ThreadSleep /\ UNCHANGED notCancel
    \/ ThreadWake /\ UNCHANGED notCancel
    \/ pthread_cancel /\ UNCHANGED notCancel
    \/ CancelDeliver /\ UNCHANGED notCancel
    \/ emuthread_cancel /\ UNCHANGED notCancel
    \/ thread_cleanup /\ UNCHANGED notCancel
    \/ my___pthread_unwind_next /\ UNCHANGED notCancel
    \/ DynaRunReturn /\ UNCHANGED notCancel
    \/ ThreadReturn /\ UNCHANGED notCancel
    \/ pthread_join /\ UNCHANGED notCancel

InitCancel ==
    AtforkEmpty /\ RegIdle /\ ProcIdle /\ InUseIdle /\ CacheIdle /\ InitCancelVars /\ TransIdle /\ BridgeIdle /\ FlagsIdle /\ RunIdle /\ SnapIdle /\ LocksIdle /\ TlsIdle /\ MmIdle /\ OpIdle /\ LifeIdle /\ PrologIdle

SpecCancel == InitCancel /\ [][NextCancel]_vars

\* the steps of the cancelled thread inside emuthread_cancel
CancelStep ==
    \/ emuthread_cancel
    \/ thread_cleanup
    \/ my___pthread_unwind_next
    \/ DynaRunReturn

\* the cancelled thread is scheduled until it has ended
SpecCancelLive == SpecCancel /\ WF_vars(CancelStep /\ UNCHANGED notCancel)

\* ---------------------------------------------------------------------------
\* the lifetime of a thread's emuthread_t and x64emu_t
\* ---------------------------------------------------------------------------

\* what the creation and the destruction of a thread leave alone
notLifeCancel == <<atforkVars, procVars, inuseVars, cacheVars, transVars, bridgeVars, flagVars, runVars, snapVars, lockVars, tlsVars, mmVars, opVars, plVars>>

\* my_pthread_create: et = box_calloc(1, sizeof(emuthread_t));
\* emuthread = NewX64Emu(...); et->emu = emuthread; -- in the creating thread
my_pthread_create ==
    /\ tpos = "none" /\ et = "none"
    /\ et' = "live"
    /\ et_emu' = "live"
    /\ UNCHANGED <<thread_key, ndestroy>>
    /\ UNCHANGED cancelVars

\* my_pthread_create: return pthread_create(t, attr, pthread_routine, et),
\* and the new host thread in pthread_routine:
\* pthread_setspecific(thread_key, p); ... DynaRun(emu) -- the guest thread
\* function runs
pthread_routine ==
    /\ tpos = "none" /\ et = "live"
    /\ thread_key' = TRUE
    /\ tpos' = "run"
    /\ thread_state' = 1
    /\ UNCHANGED <<et, et_emu, ndestroy>>
    /\ UNCHANGED <<cancels, cancel_size, cancel_cap, quit, quitonlongjmp, ci,
                   nextrec, pushed, last_pop, cleanup_log, cancel_req, at_cancel,
                   retval, joined>>

\* my_pthread_create: the host pthread_create fails, its error is returned;
\* no thread runs pthread_routine
pthread_create_fails ==
    /\ tpos = "none" /\ et = "live"
    /\ tpos' = "nothread"
    /\ UNCHANGED lifeVars
    /\ UNCHANGED <<cancels, cancel_size, cancel_cap, quit, quitonlongjmp, ci,
                   nextrec, pushed, last_pop, cleanup_log, thread_state,
                   cancel_req, at_cancel, retval, joined>>

\* a destructor of thread_key that runs whatever the thread is doing
emuthread_destroy_early ==
    /\ thread_key /\ tpos # "none"
    /\ thread_key' = FALSE
    /\ et_emu' = "freed"
    /\ et' = "freed"
    /\ ndestroy' = ndestroy + 1
    /\ UNCHANGED cancelVars

\* the thread has left pthread_routine, by return or by the end of its
\* cancellation: the host library calls the destructor of thread_key for a
\* value that is not NULL, with the value set to NULL before.
\* emuthread_destroy(p): if(!et) return; FreeX64Emu(&et->emu); box_free(et);
emuthread_destroy ==
    /\ thread_key /\ tpos = "exited"
    /\ thread_key' = FALSE
    /\ et_emu' = "freed"
    /\ et' = "freed"
    /\ ndestroy' = ndestroy + 1
    /\ UNCHANGED cancelVars

NextLife ==
    \/ my_pthread_create /\ UNCHANGED notLifeCancel
    \/ pthread_routine /\ UNCHANGED notLifeCancel
    \/ pthread_create_fails /\ UNCHANGED notLifeCancel
    \/ emuthread_destroy /\ UNCHANGED notLifeCancel
    \/ my___pthread_register_cancel /\ UNCHANGED notCancel
    \/ my___pthread_unregister_cancel /\ UNCHANGED notCancel
    \/ ThreadSleep /\ UNCHANGED notCancel
    \/ ThreadWake /\ UNCHANGED notCancel
    \/ tpos \notin {"none", "nothread"} /\ pthread_cancel /\ UNCHANGED notCancel
    \/ CancelDeliver /\ UNCHANGED notCancel
    \/ emuthread_cancel /\ UNCHANGED notCancel
    \/ thread_cleanup /\ UNCHANGED notCancel
    \/ my___pthread_unwind_next /\ UNCHANGED notCancel
    \/ DynaRunReturn /\ UNCHANGED notCancel
    \/ ThreadReturn /\ UNCHANGED notCancel
    \/ pthread_join /\ UNCHANGED notCancel

InitLife ==
    AtforkEmpty /\ RegIdle /\ ProcIdle /\ InUseIdle /\ CacheIdle /\ CancelIdle /\ TransIdle /\ BridgeIdle /\ FlagsIdle /\ RunIdle /\ SnapIdle /\ LocksIdle /\ TlsIdle /\ MmIdle /\ OpIdle /\ LifeIdle /\ PrologIdle

SpecLife == InitLife /\ [][NextLife]_vars

\* the cancelled thread is scheduled until it has ended, and the host library
\* runs the destructors of a thread that has ended
SpecLifeLive ==
    /\ SpecLife
    /\ WF_vars(CancelStep /\ UNCHANGED notCancel)
    /\ WF_vars(emuthread_destroy /\ UNCHANGED notLifeCancel)

NextProlog ==
    \/ arm64_prolog /\ UNCHANGED notPl
    \/ arm64_epilog_host /\ UNCHANGED notPl

InitProlog ==
    AtforkEmpty /\ RegIdle /\ ProcIdle /\ InUseIdle /\ CacheIdle /\ CancelIdle /\ TransIdle /\ BridgeIdle /\ FlagsIdle /\ RunIdle /\ SnapIdle /\ LocksIdle /\ TlsIdle /\ MmIdle /\ OpIdle /\ LifeIdle /\ InitPlVars

SpecProlog == InitProlog /\ [][NextProlog]_vars

NextTranslate ==
    \/ \E t \in CThread : TransMiss(t) /\ UNCHANGED notTrans
    \/ \E t \in CThread : TransLock(t) /\ UNCHANGED notTrans
    \/ \E t \in CThread : TransAlloc(t) /\ UNCHANGED notTrans
    \/ \E t \in CThread : TransPass3(t) /\ UNCHANGED notTrans
    \/ \E t \in CThread : TransFlush(t) /\ UNCHANGED notTrans
    \/ \E t \in CThread : TransPublish(t) /\ UNCHANGED notTrans
    \/ \E t \in CThread : InterpFallback(t) /\ UNCHANGED <<notTrans, transVars>>
    \/ \E t \in CThread : TransEnter(t) /\ UNCHANGED notTrans
    \/ \E t \in CThread, a \in CAddr : TransJump(t, a) /\ UNCHANGED notTrans
    \/ \E t \in CThread, a \in CAddr, x \in Byte :
          LockedWrite(t, a, x) /\ UNCHANGED notTrans
    \/ \E b \in BlockId : LockedPurge(b) /\ UNCHANGED notTrans

InitTranslate ==
    AtforkEmpty /\ RegIdle /\ ProcIdle /\ InUseIdle /\ InitCacheVars /\ CancelIdle
        /\ TransIdle /\ BridgeIdle /\ FlagsIdle /\ RunIdle /\ SnapIdle /\ LocksIdle /\ TlsIdle /\ MmIdle /\ OpIdle /\ LifeIdle /\ PrologIdle

SpecTranslate == InitTranslate /\ [][NextTranslate]_vars

NextBridge ==
    \E p \in Proc :
        \/ \E fnc \in CodeAddr : HostCall(p, fnc) /\ UNCHANGED notBridge
        \/ CallEnter(p) /\ UNCHANGED notBridge
        \/ CallExec(p) /\ UNCHANGED notBridge
        \/ \E a \in CodeAddr : GuestCall(p, a) /\ UNCHANGED notBridge
        \/ GuestRet(p) /\ UNCHANGED notBridge
        \/ CallBridge(p) /\ UNCHANGED notBridge
        \/ \E r \in WrapResult : NativeWrapper(p, r) /\ UNCHANGED notBridge
        \/ \E a \in CodeAddr : my_longjmp(p, a) /\ UNCHANGED notBridge
        \/ CallExit(p) /\ UNCHANGED notBridge
        \/ CallBridgeReturn(p) /\ UNCHANGED notBridge
        \/ CallEpilog(p) /\ UNCHANGED notBridge
        \/ EpilogTwice(p) /\ UNCHANGED notBridge
        \/ CallForkCheck(p) /\ UNCHANGED notBridge
        \/ Trap(p) /\ UNCHANGED notBridge
        \/ TrapReturn(p) /\ UNCHANGED notBridge
        \/ CallLoopExit(p) /\ UNCHANGED notBridge
        \/ HostReturn(p) /\ UNCHANGED notBridge

InitBridge ==
    /\ AtforkEmpty
    /\ RegIdle
    /\ InitBridgeVars
    /\ InUseIdle
    /\ CacheIdle
    /\ CancelIdle
    /\ TransIdle
    /\ FlagsIdle
    /\ RunIdle
    /\ SnapIdle
    /\ LocksIdle
    /\ TlsIdle
    /\ MmIdle
    /\ OpIdle /\ LifeIdle /\ PrologIdle

SpecBridge == InitBridge /\ [][NextBridge]_vars

NextFlags ==
    \/ FlagDefine /\ UNCHANGED notFlags
    \/ FlagNone /\ UNCHANGED notFlags
    \/ FlagConsume /\ UNCHANGED notFlags
    \/ FlagSignal /\ UNCHANGED notFlags
    \/ FlagSigReturn /\ UNCHANGED notFlags
    \/ FlagEpilog /\ UNCHANGED notFlags
    \/ FlagBridge /\ UNCHANGED notFlags

InitFlags ==
    /\ AtforkEmpty
    /\ RegIdle
    /\ ProcIdle
    /\ InUseIdle
    /\ CacheIdle
    /\ CancelIdle
    /\ TransIdle
    /\ BridgeIdle
    /\ InitFlagVars
    /\ RunIdle
    /\ SnapIdle
    /\ LocksIdle
    /\ TlsIdle
    /\ MmIdle
    /\ OpIdle /\ LifeIdle /\ PrologIdle

SpecFlags == InitFlags /\ [][NextFlags]_vars

\* ---------------------------------------------------------------------------
\* fork protocol: properties
\* ---------------------------------------------------------------------------

\* the guest test's counters: how many handlers of each kind have run in p
\* since the counters were reset
prepare_count(p) == Len(prepare_log[p])

parent_count(p) == Len(parent_log[p])

child_count(p) == Len(child_log[p])

\* how many times the handler fnc ran
Ran(log, fnc) == Cardinality({i \in 1 .. Len(log) : log[i] = fnc})

\* the handlers in registration order and in reverse registration order
RegOrder == [i \in 1 .. atfork_sz |-> i]

RevOrder == [i \in 1 .. atfork_sz |-> atfork_sz + 1 - i]

\* p has left the prepare loop of x64emu_fork
PrepareOver(p) ==
    where[p] \in {"fork_host", "fork_after", "fork_parent", "fork_child",
                  "fork_wait", "fork_ret", "fork_done", "crashed"}

\* p has left its parent or child loop, by the loop's end
LoopEnded(p) == where[p] \in {"fork_wait", "fork_ret", "fork_done"}

\* C2: with T records registered, a fork runs every prepare handler exactly
\* once, every parent handler exactly once in the parent and every child
\* handler exactly once in the child, and both processes get to observe it:
\* no process is lost in the handler loops, and past its loop the parent
\* counts prepare = T and parent = T, the child prepare = T and child = T.
C2_EachHandlerOnce ==
    \A p \in Proc :
        /\ where[p] # "crashed"
        /\ (LoopEnded(p) /\ v[p] >= 0) =>
              /\ prepare_count(p) = atfork_sz
              /\ \A h \in 1 .. atfork_sz : Ran(prepare_log[p], h) = 1
              /\ v[p] > 0 => /\ parent_count(p) = atfork_sz
                             /\ \A h \in 1 .. atfork_sz : Ran(parent_log[p], h) = 1
              /\ v[p] = 0 => /\ child_count(p) = atfork_sz
                             /\ \A h \in 1 .. atfork_sz : Ran(child_log[p], h) = 1

\* C3: the prepare handlers run in reverse registration order; the parent
\* handlers in the parent and the child handlers in the child run in
\* registration order: once a loop has stopped, the handlers it ran are all
\* the registered ones in that order.
C3_HandlerOrder ==
    \A p \in Proc :
        /\ PrepareOver(p) => prepare_log[p] = RevOrder
        /\ (LoopEnded(p) \/ where[p] = "crashed") =>
              /\ v[p] # 0 => parent_log[p] = RegOrder
              /\ v[p] = 0 => child_log[p] = RegOrder

\* C4: the fork wrapper does not fork; it leaves quit = 1 and the fork kind in
\* x64emu_t.  Every host fork happened in x64emu_fork called from the
\* dispatcher loop, outside translated code, with the guest registers of the
\* forking thread already stored in x64emu_t.
C4_ForkOnlyInDispatcher ==
    \A p \in Proc :
        /\ at_fork[p].where # "none" =>
              /\ at_fork[p].where = "fork_host"
              /\ GuestState(at_fork[p].emu) = at_fork[p].arch
        /\ emu[p].fork # 0 =>
              /\ emu[p].quit = 1
              /\ emu[p].fork \in ForkKinds
              /\ where[p] \in {"bridge_ret", "epilog", "forkcheck"}

\* C4 witness: a child process exists that was forked while the guest had
\* loaded RBX and set a flag
C4_Witness ==
    \E c \in Proc :
        /\ alive[c] /\ at_fork[c].child = c
        /\ at_fork[c].arch.regs[RBX] = Reg(1, 1)
        /\ at_fork[c].arch.eflags = 1

\* C6: when x64emu_fork returns after a successful fork, registers, flags and
\* instruction pointer of the process are those of the parent at the fork,
\* except regs[_AX]: 0 in the child, the child's pid in the parent.
C6_ChildStateIsParentState ==
    \A p \in Proc :
        (where[p] = "fork_done" /\ v[p] >= 0) =>
            /\ emu[p].ip = at_fork[p].emu.ip
            /\ emu[p].eflags = at_fork[p].emu.eflags
            /\ \A r \in Gpr \ {RAX} : emu[p].regs[r] = at_fork[p].emu.regs[r]
            /\ emu[p].regs[RAX] = Reg(0, v[p])
            /\ v[p] = IF at_fork[p].child = p THEN 0 ELSE at_fork[p].child

\* C6 witness: parent and child have both returned from x64emu_fork, forked
\* with RBX loaded
C6_Witness ==
    \E p \in Proc, c \in Proc :
        /\ p # c /\ at_fork[p].child = c /\ at_fork[c].child = c
        /\ where[p] = "fork_done" /\ v[p] = c
        /\ where[c] = "fork_done" /\ v[c] = 0
        /\ emu[c].regs[RBX] = Reg(1, 1)

(***************************************************************************)
(* C1: when RegThreads threads each register RegPerThread handler triples  *)
(* concurrently, after all of them completed the list holds exactly        *)
(* RegThreads * RegPerThread records, each registered record exactly once, *)
(* and the array was never corrupted, in every interleaving.               *)
(***************************************************************************)
C1_NoLostRegistration ==
    AllRegistered =>
        /\ atfork_sz = RegThreads * RegPerThread
        /\ \A t \in RegThread : \A k \in 0 .. (RegPerThread - 1) :
              Cardinality(SlotsOf(t, k)) = 1
        /\ ~heap_corrupt

\* ---------------------------------------------------------------------------
\* in_used across fork: properties
\* ---------------------------------------------------------------------------

\* C5: in a forked process (child or grandchild) the in_used counter of every
\* block counts the process's own threads inside the block only: right after
\* the fork it is 0, nothing is inherited from threads of the parent.
C5_ChildInUseReset ==
    \A c \in IuProc :
        (forkedBy[c] # -1 /\ threads[c] # {}) =>
            \A b \in Block : in_used[c][b] = Cardinality(Inside(c, b))


\* ---------------------------------------------------------------------------
\* block cache: properties
\* ---------------------------------------------------------------------------

C8_WriteThenExecute ==
    /\ \A t \in CThread : cpos[t] = "inblock" => ent[t].code = ent[t].bytes
    /\ smc.target = 1 => smc.count = 1

\* C8 amended: a thread that enters the block of an address runs code generated
\* from the bytes the address holds at that moment; a write to the code of a
\* translated function invalidates every block of the written page, which is
\* exactly one block when the function's block is the only one of its page.
C8_WriteThenExecutePage ==
    /\ \A t \in CThread : cpos[t] = "inblock" => ent[t].code = ent[t].bytes
    /\ smc.count = smc.target + smc.others
    /\ (smc.target = 1 /\ smc.others = 0) => smc.count = 1

\* C8 witness: a function alone on its page was translated, rewritten once and
\* is executed again: the code run is the new one, one invalidation counted
C8_Witness ==
    \E t \in CThread :
        /\ cpos[t] = "inblock" /\ blocks[cur[t]].addr = smc.addr
        /\ smc.target = 1 /\ smc.others = 0
        /\ ent[t].code = 2 /\ mem[smc.addr] = 2
        /\ ninval = 1

\* ---------------------------------------------------------------------------
\* cleanup records and cancellation: properties
\* ---------------------------------------------------------------------------

\* C9: the cancels array is a LIFO stack: its live part is, slot by slot, the
\* records pushed and not yet popped in push order (no push overwrote a live
\* record, none was lost), it fits in the allocated array, and every pop
\* removed the record pushed last among those still on the stack.
C9_CleanupStackLifo ==
    /\ cancel_size = Len(pushed)
    /\ cancel_size <= cancel_cap
    /\ \A i \in 1 .. Len(pushed) : cancels[i - 1] = pushed[i]
    /\ last_pop.got = last_pop.want

\* C9 witness: the array has grown twice, a record was popped and another one
\* pushed in its place, under two older records
C9_Witness ==
    /\ cancel_cap = 2 * CancelGrow
    /\ last_pop.got # 0
    /\ Len(pushed) = CancelGrow + 1
    /\ pushed[Len(pushed)] > last_pop.got

\* C10: a thread cancelled while blocked with one cleanup record on its stack
\* and then joined: when join has returned the cleanup handler has run exactly
\* once (the flag was set by it, once) and the status is that of a cancelled
\* thread.
C10_CancelRunsCleanupOnce ==
    (joined # "none" /\ at_cancel = 1) =>
        /\ Len(cleanup_log) = 1
        /\ thread_state = 2
        /\ joined = "canceled"

\* C10 witness: such a thread has been joined
C10_Witness ==
    /\ joined = "canceled" /\ at_cancel = 1
    /\ cleanup_log = <<1>>

\* ---------------------------------------------------------------------------
\* purge of translated blocks: properties
\* ---------------------------------------------------------------------------

C12_PublishAfterWrite ==
    /\ \A a \in CAddr :
          ~BlockMiss(a) =>
              /\ blocks[jmptable[a]].state = "live"
              /\ blocks[jmptable[a]].addr = a
              /\ blocks[jmptable[a]].written /\ blocks[jmptable[a]].flushed
    /\ \A t \in CThread :
          cpos[t] = "inblock" =>
              /\ blocks[cur[t]].written /\ blocks[cur[t]].flushed
              /\ ent[t].code \in Byte /\ ent[t].code = blocks[cur[t]].code

\* C12 witness: a thread is inside a block, entered without lock, while another
\* thread holds the lock over a block whose code is written and not yet flushed
C12_Witness ==
    \E t, u \in CThread :
        /\ cpos[t] = "inblock" /\ cpos[u] = "pass3" /\ cache_lock = u
        /\ blocks[build[u]].written /\ ~blocks[build[u]].flushed
        /\ blocks[build[u]].addr # blocks[cur[t]].addr

\* at most one current block covers an address, and the page table leads to it
OneCurrent ==
    /\ \A b, c \in BlockId :
          (blocks[b].state = "live" /\ blocks[c].state = "live"
              /\ blocks[b].addr = blocks[c].addr) => b = c
    /\ \A b \in BlockId :
          blocks[b].state = "live" => jmptable[blocks[b].addr] = b
    /\ \A a \in CAddr : ~BlockMiss(a) => blocks[jmptable[a]].state = "live"

FastPath(t) ==
    /\ cpos'[t] = "inblock"
    /\ cpos[t] = "loop" \/ (cpos[t] = "inblock" /\ cur'[t] # cur[t])

\* the block without its in_used count
Pinless(blk) == [blk EXCEPT !.in_used = 0]

\* C14 as stated: a step in which a thread enters a translated block takes no
\* lock and writes nothing of the cache: page table, blocks, page marks.
C14_FastPathWritesNothing ==
    [][\A t \in CThread :
          FastPath(t) =>
              /\ cache_lock # t /\ cache_lock' = cache_lock
              /\ jmptable' = jmptable
              /\ protected' = protected /\ hot' = hot /\ mem' = mem
              /\ blocks' = blocks]_vars

\* C14, amended: a step in which a thread enters a translated block takes no
\* lock and writes nothing of the cache but the in_used count of the block it
\* enters (and of the block it leaves), whoever holds the lock.
C14_FastPathReadOnly ==
    [][\A t \in CThread :
          FastPath(t) =>
              /\ cache_lock # t /\ cache_lock' = cache_lock
              /\ jmptable' = jmptable
              /\ protected' = protected /\ hot' = hot /\ mem' = mem
              /\ \A b \in BlockId : Pinless(blocks'[b]) = Pinless(blocks[b])
              /\ blocks'[cur'[t]].in_used > 0]_vars

\* C14 witness: the leaf function's block was entered N times while another
\* thread holds the lock
C14_Witness ==
    /\ leaf_calls = MaxCalls
    /\ cache_lock # NoThread
    /\ \E t \in CThread : cpos[t] = "inblock" /\ blocks[cur[t]].addr = LeafAddr

C16_EpilogIdempotent ==
    \A p \in Proc :
        where[p] = "epilog2" => GuestState(emu[p]) = GuestState(once[p])

\* C16, amended: after a second run of the epilog without prolog in between,
\* RAX..R8 in x64emu_t are as the first run left them, and R9..R15, the flags
\* and the instruction pointer hold the host's callee-saved registers that the
\* first run restored.
C16_EpilogTwiceKeepsCallerSaved ==
    \A p \in Proc :
        where[p] = "epilog2" =>
            /\ \A r \in Gpr \ CalleeSaved : emu[p].regs[r] = once[p].regs[r]
            /\ \A r \in CalleeSaved : emu[p].regs[r] = HostRegs.regs[r]
            /\ emu[p].eflags = HostRegs.eflags
            /\ emu[p].ip = HostRegs.ip

\* C16 witness: the epilog ran twice after the guest had set RBX, a flag and,
\* through a wrapper, RAX
C16_Witness ==
    \E p \in Proc :
        /\ where[p] = "epilog2"
        /\ once[p].regs[RBX] = Reg(1, 1) /\ once[p].eflags = 1
        /\ once[p].regs[RAX] = Reg(0, 2)

\* the places where another subsystem reads the thread's x64emu_t: a wrapper,
\* a signal handler, EmuRun after the epilog, DynaRun's caller
Observed == {"wrapper", "trap", "forkcheck", "loop", "returned"}

C19_BridgeReturnChecksRip ==
    /\ [][\A p \in Proc :
            (where[p] = "bridge_ret" /\ where'[p] # "bridge_ret") =>
                /\ hreg'[p] = GuestState(emu[p])
                /\ where'[p] = "block" => emu[p].ip = x3[p]
                /\ emu[p].ip # x3[p] => where'[p] = "epilog"]_vars
    /\ [](\A p \in Proc :
            (where[p] = "epilog" /\ wrap_ip[p] # -1) => hreg[p].ip = wrap_ip[p])
    /\ [](\A p \in Proc :
            (where[p] \in {"forkcheck", "loop"} /\ wrap_ip[p] # -1) =>
                emu[p].ip = wrap_ip[p])
    /\ [][\A p \in Proc :
            (where[p] = "loop" /\ where'[p] = "block") =>
                hreg'[p].ip = emu[p].ip]_vars

\* C19 witness: my_longjmp set a RIP other than the expected one, and the
\* thread is back in EmuRun, about to go on at that RIP
C19_Witness ==
    \E p \in Proc :
        /\ where[p] = "loop" /\ emu[p].quit = 0
        /\ wrap_ip[p] # -1 /\ wrap_ip[p] # x3[p]
        /\ emu[p].ip = wrap_ip[p]

\* C20: from the host's call on, the exit bridge is the bottom return address
\* of the guest stack until the guest returns to it; quit is set, and DynaRun
\* returns, only when the guest has returned to the exit bridge, after which no
\* block is entered any more; and the value DynaRun's caller takes from RAX is
\* the guest's RAX at that return.
C20_ReturnThroughExitBridge ==
    \A p \in Proc :
        (alive[p] /\ where[p] # "host") =>
            /\ IF arch[p].ip = exit_bridge
               THEN gstack[p] = <<>>
               ELSE gstack[p] # <<>> /\ gstack[p][1] = exit_bridge
            /\ emu[p].quit # 0 => arch[p].ip = exit_bridge
            /\ emu[p].quit # 0 =>
                   where[p] \in {"bridge_ret", "epilog", "epilog2", "forkcheck",
                                 "loop", "returned", "done"}
            /\ where[p] \in {"returned", "done"} =>
                   (arch[p].ip = exit_bridge /\ emu[p].quit # 0)
            /\ where[p] = "done" => host_ret[p] = arch[p].regs[RAX]

\* C20 witness: DynaRun has returned and its caller has taken 2, the result of
\* the last wrapper the guest function called, as the return value
C20_Witness ==
    \E p \in Proc :
        /\ where[p] = "done" /\ host_ret[p] = Reg(0, 2)
        /\ arch[p].regs[RBX] = Reg(1, 1)


\* ---------------------------------------------------------------------------
\* flags: properties
\* ---------------------------------------------------------------------------

\* the flags of the guest are in the flags word or can be computed from the
\* deferred-flags scratch
InGuestCpu == arch_fl = xflags \/ arch_fl = df

\* C17 as stated: once a flag-defining instruction has completed, at any point
\* of the block and at a signal entry, the epilog and a bridge call, the flags
\* it defines are in the flags word or can be computed from the scratch.
C17_FlagsAlwaysReconcilable == arch_fl # 0 => InGuestCpu

\* C17, amended: the flags of an instruction that are read later in the block,
\* other than by the conditional jump that follows it, or that the block ends
\* with, are in the flags word or can be computed from the scratch from that
\* instruction on, and so at every epilog and bridge call; before the jump
\* that follows their instruction they are in the host's condition flags;
\* every consumer reads the flags the guest has.  (Flags nothing reads are not
\* computed.)
C17_NeededFlagsReconcilable ==
    /\ (arch_fl # 0 /\ Pend(arch_fl)) => InGuestCpu
    /\ (arch_fl # 0 /\ Native(arch_fl) /\ fpc = arch_fl + 1) =>
           (nzcv = arch_fl \/ InGuestCpu)
    /\ fpos \in {"epilog", "bridge"} => InGuestCpu
    /\ last_read.used = last_read.arch

\* C17 witness: the block has ended in a bridge call with the flags of its last
\* flag-defining instruction in the scratch, after an instruction whose flags
\* nothing read
C17_Witness ==
    /\ fpos = "bridge" /\ arch_fl = FlagLen /\ df = arch_fl
    /\ fcode[1] = "alu" /\ ~Needed(1)
    /\ \E i \in FlagIdx : fcode[i] = "mov"

\* ---------------------------------------------------------------------------
\* fork protocol: vfork-like forks, failed forks, the dispatcher's fork check
\* ---------------------------------------------------------------------------

\* the child c no longer needs its parent to wait: it has terminated or it
\* has called exec()
Released(c) == where[c] \in {"exited", "crashed", "execed"}

\* C23: in a fork of kind 3 the parent does not leave the fork protocol
\* before its child has exited or called exec, and once the child has done
\* either the parent's wait is able to return.
C23_VforkParentWaits ==
    \A p \in Proc :
        (alive[p] /\ forktype[p] = ForkVfork /\ v[p] > 0) =>
            /\ where[p] \in {"fork_ret", "fork_done"} => Released(v[p])
            /\ (where[p] = "fork_wait" /\ Released(v[p])) => WaitReturns(p, v[p])

\* C27: after a failed host fork (v = -1) of any kind no child callback runs,
\* the thread is not lost and does not block on a child, and it leaves the
\* fork protocol with -1 in EAX, quit and fork cleared, at the guest IP it
\* had.
C27_FailedForkReturnsError ==
    \A p \in Proc :
        (alive[p] /\ v[p] = -1) =>
            /\ where[p] \notin {"fork_child", "crashed"}
            /\ child_log[p] = <<>>
            /\ where[p] = "fork_wait" => WaitReturns(p, v[p])
            /\ where[p] = "fork_done" =>
                  /\ emu[p].regs[RAX].lo = -1
                  /\ emu[p].quit = 0 /\ emu[p].fork = 0
                  /\ emu[p].ip = arch[p].ip

\* C28: EmuRun returns only from its loop test, with quit set and no fork
\* request pending; a pending request is handled at the fork check, before
\* the loop test, and whenever x64emu_fork returns, in the parent and in the
\* child, quit and the request are clear and the thread goes on to the loop
\* test, not out of EmuRun.
C28_LoopReturnsOnQuitOnly ==
    [][\A p \in Proc :
          /\ (where'[p] = "returned" /\ where[p] # "returned") =>
                /\ where[p] = "loop"
                /\ emu'[p].quit # 0 /\ emu'[p].fork = 0
          /\ (where[p] = "loop" /\ where'[p] # "loop") => emu[p].fork = 0
          /\ (where[p] = "fork_done" /\ where'[p] # "fork_done") =>
                /\ where'[p] = "loop"
                /\ emu'[p].quit = 0 /\ emu'[p].fork = 0]_vars

\* C28 witness: after a fork the parent and the child have both gone on in
\* EmuRun and returned from it
C28_Witness ==
    \E p \in Proc, c \in Proc :
        /\ p # c /\ at_fork[p].child = c /\ at_fork[c].child = c
        /\ where[p] = "returned" /\ where[c] = "returned"
        /\ emu[p].regs[RAX].lo = c /\ emu[c].regs[RAX].lo = 0

\* C29: every iteration of the parent loop and of the child loop of
\* x64emu_fork reads a record at an index in 0 .. atfork_sz - 1, no record is
\* visited twice, and the loops end (no thread is lost in them).
C29_CallbackLoopsInBounds ==
    \A p \in Proc :
        /\ (where[p] \in {"fork_parent", "fork_child"} /\ LoopCond(fi[p])) =>
              fi[p] \in 0 .. (atfork_sz - 1)
        /\ \A h \in 1 .. atfork_sz :
              Ran(parent_log[p], h) <= 1 /\ Ran(child_log[p], h) <= 1
        /\ where[p] # "crashed"

\* C24: the fork check of EmuRun and the fork check of Run do the same on the
\* same x64emu_t: for every pending fork kind each clears quit and fork and
\* enters x64emu_fork with that kind, and when x64emu_fork returns each goes
\* on with the x64emu_t unchanged, which holds the guest's state with the
\* fork result in EAX, at the guest IP of that x64emu_t (Run: addr).
C24_SameForkHandling ==
    [][\A p \in Proc :
          /\ (where[p] \in {"forkcheck", "run_fini"} /\ emu[p].fork # 0
                 /\ where'[p] # where[p]) =>
                /\ where'[p] = "fork_prepare"
                /\ forktype'[p] = emu[p].fork
                /\ emu'[p] = [emu[p] EXCEPT !.quit = 0, !.fork = 0]
          /\ (where[p] = "fork_done" /\ where'[p] # "fork_done") =>
                /\ where'[p] \in {"loop", "forkcheck", "run"}
                /\ emu'[p] = emu[p]
                /\ emu[p].quit = 0 /\ emu[p].fork = 0
                /\ emu[p].regs[RAX].lo = v[p]
                /\ GuestState(emu[p]) = arch[p]
                /\ where'[p] = "run" => run'[p].addr = emu[p].ip]_vars

\* C24 witness: a fork requested inside Run(emu, 0) with RBX loaded was
\* handled by Run's check, and parent and child are both back in Run's loop
\* at the guest IP of the fork
C24_Witness ==
    \E p \in Proc, c \in Proc :
        /\ p # c /\ at_fork[p].child = c /\ at_fork[c].child = c
        /\ where[p] = "run" /\ where[c] = "run"
        /\ run[p].active /\ run[p].step = 0 /\ run[c] = run[p]
        /\ run[p].addr = at_fork[p].emu.ip
        /\ emu[p].regs[RBX] = Reg(1, 1)
        /\ emu[p].regs[RAX].lo = c /\ emu[c].regs[RAX].lo = 0

\* ---------------------------------------------------------------------------
\* fork beside running registrations: properties
\* ---------------------------------------------------------------------------

\* the handlers in a log, as a set
Handlers(log) == {log[i] : i \in 1 .. Len(log)}

\* C30: a fork that runs while other threads register callbacks works on one
\* snapshot of the list: no parent or child callback runs whose record's
\* prepare callback did not run before the host fork, and once the parent's
\* and the child's loop are over, the records whose parent callback ran in
\* the parent and those whose child callback ran in the child are exactly the
\* records whose prepare callback ran.
C30_ForkUsesSnapshot ==
    \A p \in Proc :
        /\ Handlers(parent_log[p]) \subseteq Handlers(prepare_log[p])
        /\ Handlers(child_log[p]) \subseteq Handlers(prepare_log[p])
        /\ (LoopEnded(p) \/ where[p] = "crashed") =>
              IF v[p] # 0 THEN Handlers(parent_log[p]) = Handlers(prepare_log[p])
                          ELSE Handlers(child_log[p]) = Handlers(prepare_log[p])

\* ---------------------------------------------------------------------------
\* locks across fork: properties
\* ---------------------------------------------------------------------------

\* C22: in a forked child every mutex of the context and of custommem.c is
\* unlocked or held by the child's own thread, whichever threads of the
\* parent held it at the fork: no mutex of the child is held by a thread that
\* does not exist in it, so the child's thread never waits for one forever.
C22_ChildLocksReinitialised ==
    \A c \in LockProc :
        lstate[c] = "child" =>
            \A l \in Locks : lock_owner[c][l] \in {NoThread, MainThread}

\* C22 witness: a child forked while worker threads of the parent held every
\* mutex has locked all of them itself
C22_Witness ==
    \E c \in LockProc :
        /\ lstate[c] = "child"
        /\ held_at_fork[c] = Locks
        /\ \A l \in Locks : lock_owner[c][l] = MainThread

\* ---------------------------------------------------------------------------
\* thread-local storage: properties
\* ---------------------------------------------------------------------------

\* C21: every started thread reads, in each of its thread-local variables,
\* the value it last wrote there itself, and the initial value of
\* context->tlsdata if it has not written yet: the writes of the other
\* threads never show in its block.
C21_TlsPerThread ==
    \A t \in Thread :
        segs_offs[t] # 0 =>
            \A off \in TlsOffset : FsRead(t, off) = tls_own[t][off]

\* C21 witness: two threads started after the main thread have given both
\* their variables different values, a third value is still the initial one
\* in the main thread
C21_Witness ==
    \E t1, t2 \in Thread \ {MainThread} :
        /\ t1 # t2
        /\ segs_offs[t1] # 0 /\ segs_offs[t2] # 0
        /\ FsRead(t1, 1) = 0 /\ FsRead(t1, 2) = 0
        /\ FsRead(t2, 1) = 1 /\ FsRead(t2, 2) = 1
        /\ FsRead(MainThread, 1) = TLS_data1
        /\ FsRead(MainThread, 2) = TLS_data2

\* ---------------------------------------------------------------------------
\* mmaplist chunks arrays: properties
\* ---------------------------------------------------------------------------

\* C25: the chunks arrays that are allocated and not freed are those of the
\* mmaplist_t that still exist: deleting an mmaplist, on dlclose or at exit,
\* frees its array, so none is left after any number of cycles.
C25_ChunksFreedWithList ==
    chunks_heap = Cardinality(ListsWithChunks)

\* ---------------------------------------------------------------------------
\* opcode 0F 00: properties
\* ---------------------------------------------------------------------------

\* C26: when the interpreter has run SLDT, STR, VERR or VERW, in 64-bit or in
\* 32-bit mode, it has not returned 0 for an unhandled opcode, a handler of
\* the instruction has run exactly once, and STR has stored the task register
\* into its destination.
C26_Op0f00Handled ==
    OpOver =>
        /\ op_pos # "return 0"
        /\ op_count = 1
        /\ ModRmReg(nextop) = 1 => op_stored = <<"tr">>

\* ---------------------------------------------------------------------------
\* the at-fork list across the fork protocol: properties
\* ---------------------------------------------------------------------------

C32_StaleBlockReclaimed ==
    \A c \in IuProc, b \in Block :
        (forkedBy[c] # -1 /\ threads[c] # {} /\ b \notin purged[c]
                          /\ Inside(c, b) = {})
            ~> (b \in purged[c] \/ Inside(c, b) # {} \/ threads[c] = {})

\* C33: in every process, the first one and the forked ones alike, the
\* in_used counter of each block is at every moment the number of threads of
\* that process that are inside the block, and so never negative.
C33_InUseCountsThreads ==
    \A p \in IuProc, b \in Block :
        threads[p] # {} =>
            /\ in_used[p][b] >= 0
            /\ in_used[p][b] = Cardinality({t \in threads[p] : running[p][t] = b})

\* ---------------------------------------------------------------------------
\* cancellation with several cleanup records: properties
\* ---------------------------------------------------------------------------

\* the thread is inside emuthread_cancel
InCancel == tpos \in {"cancel", "cleanup", "unwind", "dynarun"}

\* C34: while emuthread_cancel runs, the cleanup handlers that have run are
\* those of the records at the top of the stack, the most recently registered
\* first, one run each; when it has finished, the handler of every record
\* that was on the stack has run exactly once and the stack is empty:
\* cancel_size = 0, cancel_cap = 0, no array.
C34_CancelRunsAllLifo ==
    /\ InCancel =>
          /\ Len(cleanup_log) <= Len(pushed)
          /\ \A k \in 1 .. Len(cleanup_log) :
                cleanup_log[k] = pushed[Len(pushed) - k + 1]
          /\ tpos = "cancel" => Len(cleanup_log) = at_cancel - 1 - ci
    /\ (tpos = "exited" /\ retval = "canceled") =>
          /\ Len(cleanup_log) = at_cancel
          /\ \A j, k \in 1 .. Len(cleanup_log) :
                j < k => cleanup_log[j] > cleanup_log[k]
          /\ cancel_size = 0 /\ cancel_cap = 0 /\ cancels = NoCancels

\* C34 witness: a thread cancelled with three records on its stack, one of
\* them registered after a pop, has finished emuthread_cancel
C34_Witness ==
    /\ tpos = "exited" /\ retval = "canceled"
    /\ at_cancel = 3
    /\ Len(cleanup_log) = 3
    /\ last_pop.got # 0

\* C35: during cancellation the dispatcher is re-entered with quit = 0 and
\* quitonlongjmp = 0, it is left with quit = 1 set by __pthread_unwind_next,
\* every re-entry comes back to the loop of emuthread_cancel, and
\* emuthread_cancel, once begun, finishes.
C35_CancelReentryTerminates ==
    /\ [](tpos = "cleanup" => (quit = 0 /\ quitonlongjmp = 0))
    /\ [](tpos = "dynarun" => quit = 1)
    /\ (tpos = "cleanup") ~> (tpos = "cancel")
    /\ InCancel ~> (tpos = "exited" /\ retval = "canceled")

\* C35 witness: emuthread_cancel has finished after two re-entries of the
\* dispatcher, the last of which was left through quit
C35_Witness ==
    /\ tpos = "exited" /\ retval = "canceled"
    /\ at_cancel = 2
    /\ Len(cleanup_log) = 2
    /\ quit = 1

\* ---------------------------------------------------------------------------
\* EmuRun: the interpreter fallback for an instruction without translation
\* ---------------------------------------------------------------------------

\* the instructions the translator cannot expand: in the guest program of
\* GuestInstr, the one that sets a flag
CannotExpand(a) == a % 2 = 1

\* EmuRun: block = DBGetBlock(emu, R_RIP, 1) gives a complete block, which is
\* entered through native_prolog; there is no block that starts with an
\* instruction the translator cannot expand
FbEnterBlock(p) ==
    /\ ~CannotExpand(emu[p].ip)
    /\ EnterBlock(p)

\* one translated instruction of the block; the block ends before an
\* instruction the translator cannot expand
FbExecGuest(p) ==
    /\ ~CannotExpand(hreg[p].ip)
    /\ ExecGuest(p)

\* the end of the block: a block holds one instruction at least
FbEpilog(p) ==
    /\ hreg[p].ip # emu[p].ip
    /\ Epilog(p)

\* EmuRun: else Run(emu, 1) -- no complete block at R_RIP
FbRunEnter(p) ==
    /\ RunEnter(p, 1)

NextFallback ==
    \/ FbEnterBlock(0) /\ UNCHANGED notProc
    \/ FbExecGuest(0) /\ UNCHANGED notProc
    \/ FbEpilog(0) /\ UNCHANGED notProc
    \/ ForkCheck(0) /\ UNCHANGED notProc
    \/ FbRunEnter(0) /\ UNCHANGED notRun
    \/ RunExec(0) /\ UNCHANGED notRun
    \/ RunForkCheck(0) /\ UNCHANGED notRun

\* EmuRun is entered with any guest state: R_RIP at any instruction of the
\* program, any values in RAX and RDI, the flag set or clear
InitFallback ==
    /\ AtforkEmpty
    /\ RegIdle
    /\ \E a \in CodeAddr, x \in 0 .. MaxByte, y \in 0 .. MaxByte, f \in 0 .. 1 :
          LET e == [NewX64Emu EXCEPT !.ip = a, !.eflags = f,
                                     !.regs[RAX] = Reg(0, x),
                                     !.regs[RDI] = Reg(0, y)]
          IN /\ emu = [p \in Proc |-> IF p = 0 THEN e ELSE NewX64Emu]
             /\ arch = [p \in Proc |-> IF p = 0 THEN GuestState(e)
                                                ELSE GuestState(NewX64Emu)]
    /\ alive = [p \in Proc |-> p = 0]
    /\ hreg = [p \in Proc |-> HostRegs]
    /\ where = [p \in Proc |-> IF p = 0 THEN "loop" ELSE "none"]
    /\ fi = [p \in Proc |-> 0]
    /\ forktype = [p \in Proc |-> 0]
    /\ v = [p \in Proc |-> 0]
    /\ prepare_log = [p \in Proc |-> <<>>]
    /\ parent_log = [p \in Proc |-> <<>>]
    /\ child_log = [p \in Proc |-> <<>>]
    /\ at_fork = [p \in Proc |-> NoFork]
    /\ x3 = [p \in Proc |-> 0]
    /\ ppid = [p \in Proc |-> -1]
    /\ InUseIdle /\ CacheIdle /\ CancelIdle /\ TransIdle /\ BridgeIdle
    /\ FlagsIdle /\ RunIdle /\ SnapIdle /\ LocksIdle /\ TlsIdle /\ MmIdle
    /\ OpIdle /\ LifeIdle /\ PrologIdle

SpecFallback == InitFallback /\ [][NextFallback]_vars

\* the thread that runs EmuRun is scheduled again and again
SpecFallbackLive == SpecFallback /\ WF_vars(NextFallback)

ThreadOwn ==
    <<cancels, cancel_size, cancel_cap, quit, quitonlongjmp, tpos, ci, nextrec,
      pushed, last_pop, cleanup_log, thread_state, at_cancel, retval>>

\* C38: the emuthread_t and its x64emu_t exist when the host thread starts;
\* they are released together, by emuthread_destroy, at most once and only
\* once the thread has ended, by the return of the guest entry or with the
\* cleanup of its cancellation complete (every handler has run, the cancels
\* array is freed); while the thread is anywhere before its end both are
\* live, and no step of the thread happens after the release; a thread that
\* has ended has them released, exactly once.
C38_HandleLifetime ==
    /\ [](tpos \notin {"none", "nothread", "exited"} =>
              (et = "live" /\ et_emu = "live" /\ thread_key /\ ndestroy = 0))
    /\ []((et = "freed" <=> et_emu = "freed") /\ (et = "freed" <=> ndestroy = 1)
              /\ ndestroy <= 1)
    /\ [](et = "freed" =>
              /\ tpos = "exited"
              /\ retval \in {"returned", "canceled"}
              /\ retval = "canceled" =>
                    (Len(cleanup_log) = at_cancel /\ cancels = NoCancels
                        /\ cancel_size = 0))
    /\ [][ThreadOwn' # ThreadOwn =>
              (\/ et = "live" /\ et_emu = "live" /\ et' = "live" /\ et_emu' = "live"
               \/ tpos' = "nothread")]_vars
    /\ [][et' = "freed" /\ et # "freed" =>
              (tpos = "exited" /\ thread_key /\ ~thread_key')]_vars
    /\ (tpos = "exited") ~> (et = "freed" /\ et_emu = "freed" /\ ndestroy = 1)

\* C38 witness: a thread that was cancelled with two cleanup handlers pushed
\* has run both, has ended, and its emuthread_t was then released
C38_Witness ==
    /\ tpos = "exited" /\ retval = "canceled"
    /\ at_cancel = 2 /\ Len(cleanup_log) = 2
    /\ et = "freed" /\ et_emu = "freed" /\ ndestroy = 1 /\ ~thread_key

\* ---------------------------------------------------------------------------
\* prolog and epilog: properties
\* ---------------------------------------------------------------------------

\* C39: after the prolog and then the epilog, with no guest instruction in
\* between, the x64emu_t holds what it held at the call (sixteen registers,
\* flags, instruction pointer), every host callee-saved register (x19..x28,
\* d8..d15) holds the value it had before the prolog, and so does the host
\* stack pointer.
C39_PrologEpilogRestores ==
    pl_pos = "returned" =>
        /\ pl_emu = pl_emu0
        /\ \A r \in HostCalleeSaved : hx[r] = HostVal(r)
        /\ hsp = 0

\* ---------------------------------------------------------------------------
\* hot pages and always_test: properties
\* ---------------------------------------------------------------------------

\* C36: a current block whose page is hot (a write to it has been observed)
\* has always_test set, and a thread is inside a block with always_test only
\* if at its entry the hash of the bytes then at the address equalled the
\* hash kept at compile time, so that the code it runs is that of those
\* bytes: a block whose hash differs is not entered.
C36_HotPageBlocksVerified ==
    /\ \A b \in BlockId :
          (blocks[b].state = "live" /\ hot[PageOf(blocks[b].addr)]) =>
              blocks[b].always_test # 0
    /\ \A t \in CThread :
          (cpos[t] = "inblock" /\ blocks[cur[t]].always_test # 0) =>
              /\ X31_hash_code(ent[t].bytes) = blocks[cur[t]].hash
              /\ ent[t].code = ent[t].bytes

\* C36 witness: the block of address 0 failed its hash check without any
\* write fault, was invalidated and compiled again with always_test, and a
\* thread runs the new block, whose code is that of the current bytes
C36_Witness ==
    \E t \in CThread :
        /\ cpos[t] = "inblock" /\ cip[t] = 0
        /\ smc = NoSmc /\ ninval >= 1
        /\ blocks[1].state # "live"
        /\ blocks[cur[t]].state = "live" /\ blocks[cur[t]].always_test # 0
        /\ blocks[cur[t]].code = mem[0] /\ blocks[1].code # mem[0]

====
